---- MODULE Spec2Model ----
(***************************************************************************)
(* Model of the CTF metadata field-class reference resolver                *)
(* (plugins/ctf/common/src/metadata/tsdl/ctf-meta-resolve.cpp).            *)
(*                                                                         *)
(* Field classes live in an arena `fcs` (node id -> field class); a node   *)
(* id plays the role of the C pointer and NULL is 0.  Strings are          *)
(* sequences of one-character strings, so that the lexer and the prefix    *)
(* test work on characters as the C code does.                             *)
(***************************************************************************)
EXTENDS Integers, Sequences, FiniteSets, TLC

(***************************************************************************)
(* Bounds of the model.                                                    *)
(***************************************************************************)
NumStreamClasses == 2
NumEventClasses == 2
MaxRuns == 2

(***************************************************************************)
(* Program constants.                                                      *)
(***************************************************************************)
NULL == 0

CTF_SCOPE_PACKET_UNKNOWN == -1
CTF_SCOPE_PACKET_HEADER == 0
CTF_SCOPE_PACKET_CONTEXT == 1
CTF_SCOPE_EVENT_HEADER == 2
CTF_SCOPE_EVENT_COMMON_CONTEXT == 3
CTF_SCOPE_EVENT_SPECIFIC_CONTEXT == 4
CTF_SCOPE_EVENT_PAYLOAD == 5

Scopes == CTF_SCOPE_PACKET_HEADER .. CTF_SCOPE_EVENT_PAYLOAD

\* Stands for 2^63 - 1: it is only ever compared with member indices, and
\* this is the largest integer the model checker represents.
INT64_MAX == 2147483647

CTF_FIELD_CLASS_TYPE_INT == "INT"
CTF_FIELD_CLASS_TYPE_ENUM == "ENUM"
CTF_FIELD_CLASS_TYPE_FLOAT == "FLOAT"
CTF_FIELD_CLASS_TYPE_STRING == "STRING"
CTF_FIELD_CLASS_TYPE_STRUCT == "STRUCT"
CTF_FIELD_CLASS_TYPE_ARRAY == "ARRAY"
CTF_FIELD_CLASS_TYPE_SEQUENCE == "SEQUENCE"
CTF_FIELD_CLASS_TYPE_VARIANT == "VARIANT"

\* TSDL dynamic scope prefixes, indexed by scope + 1.
absolute_path_prefixes ==
  << <<"t", "r", "a", "c", "e", ".", "p", "a", "c", "k", "e", "t", ".", "h", "e", "a", "d", "e", "r", ".">>,
     <<"s", "t", "r", "e", "a", "m", ".", "p", "a", "c", "k", "e", "t", ".", "c", "o", "n", "t", "e", "x", "t", ".">>,
     <<"s", "t", "r", "e", "a", "m", ".", "e", "v", "e", "n", "t", ".", "h", "e", "a", "d", "e", "r", ".">>,
     <<"s", "t", "r", "e", "a", "m", ".", "e", "v", "e", "n", "t", ".", "c", "o", "n", "t", "e", "x", "t", ".">>,
     <<"e", "v", "e", "n", "t", ".", "c", "o", "n", "t", "e", "x", "t", ".">>,
     <<"e", "v", "e", "n", "t", ".", "f", "i", "e", "l", "d", "s", ".">> >>

\* Number of path tokens used for the absolute prefixes, indexed by scope + 1.
absolute_path_prefix_ptoken_counts == <<3, 3, 3, 3, 2, 2>>

(***************************************************************************)
(* Field paths.                                                            *)
(***************************************************************************)
\* The empty string.
NoPath == <<>>

ctf_field_path_init == [root |-> CTF_SCOPE_PACKET_HEADER, path |-> <<>>]

ctf_field_path_append_index(field_path, index) ==
  [field_path EXCEPT !.path = Append(@, index)]

ctf_field_path_clear(field_path) == [field_path EXCEPT !.path = <<>>]

ctf_field_path_copy_content(dst, src) == [root |-> src.root, path |-> src.path]

(***************************************************************************)
(* Field classes.  Every node of the arena has the same fields; those that *)
(* its type does not have keep their initial value.                        *)
(***************************************************************************)
IsCompound(type) ==
  type \in {CTF_FIELD_CLASS_TYPE_STRUCT, CTF_FIELD_CLASS_TYPE_VARIANT,
            CTF_FIELD_CLASS_TYPE_ARRAY, CTF_FIELD_CLASS_TYPE_SEQUENCE}

IsArrayBase(type) ==
  type \in {CTF_FIELD_CLASS_TYPE_ARRAY, CTF_FIELD_CLASS_TYPE_SEQUENCE}

\* Index of the member or option named `orig_name`, -1 when there is none
\* or when `fc` is neither a structure nor a variant.
RECURSIVE NameIndexFrom(_, _, _)
NameIndexFrom(members, orig_name, i) ==
  IF i > Len(members) THEN -1
  ELSE IF members[i].name = orig_name THEN i - 1
  ELSE NameIndexFrom(members, orig_name, i + 1)

ctf_field_class_compound_get_field_class_index_from_orig_name(F, fc, orig_name) ==
  IF F[fc].type \in {CTF_FIELD_CLASS_TYPE_STRUCT, CTF_FIELD_CLASS_TYPE_VARIANT}
  THEN NameIndexFrom(F[fc].members, orig_name, 1)
  ELSE -1

\* Array and sequence classes contain a single child, the element class.
ctf_field_class_compound_get_field_class_count(F, fc) ==
  IF IsArrayBase(F[fc].type) THEN 1 ELSE Len(F[fc].members)

ctf_field_class_compound_borrow_field_class_by_index(F, fc, index) ==
  IF IsArrayBase(F[fc].type) THEN F[fc].elem_fc
  ELSE IF index >= 0 /\ index < Len(F[fc].members) THEN F[fc].members[index + 1].fc
  ELSE NULL

ctf_field_class_variant_set_tag_field_class(var_fc, tag_fc) ==
  [var_fc EXCEPT !.tag_fc = tag_fc]

(***************************************************************************)
(* Resolving context helpers.                                              *)
(***************************************************************************)
field_class_stack_size(stack) == Len(stack)

field_class_stack_at(stack, index) == stack[index + 1]

field_class_stack_push(stack, fc) == Append(stack, [fc |-> fc, index |-> 0])

\* Mutant of field_class_stack_pop: the top frame is left on the stack.
field_class_stack_pop_top_left(stack) == stack

field_class_stack_pop(stack) ==
  IF Len(stack) = 0 THEN stack ELSE SubSeq(stack, 1, Len(stack) - 1)

borrow_class_from_ctx(c, scope) ==
  CASE scope = CTF_SCOPE_PACKET_HEADER -> c.scopes.packet_header
    [] scope = CTF_SCOPE_PACKET_CONTEXT -> c.scopes.packet_context
    [] scope = CTF_SCOPE_EVENT_HEADER -> c.scopes.event_header
    [] scope = CTF_SCOPE_EVENT_COMMON_CONTEXT -> c.scopes.event_common_context
    [] scope = CTF_SCOPE_EVENT_SPECIFIC_CONTEXT -> c.scopes.event_spec_context
    [] scope = CTF_SCOPE_EVENT_PAYLOAD -> c.scopes.event_payload

(***************************************************************************)
(* Scope classifier and path lexer.                                        *)
(***************************************************************************)
\* Mutant of strncmp_prefix_equal: the trailing '.' of the prefix is not
\* compared.
strncmp_prefix_equal_without_dot(pathstr, prefix) ==
  /\ Len(pathstr) >= Len(prefix) - 1
  /\ \A i \in 1..(Len(prefix) - 1) : pathstr[i] = prefix[i]

\* strncmp(pathstr, prefix, strlen(prefix)) == 0
strncmp_prefix_equal(pathstr, prefix) ==
  /\ Len(pathstr) >= Len(prefix)
  /\ \A i \in 1..Len(prefix) : pathstr[i] = prefix[i]

RECURSIVE get_root_scope_from(_, _)
get_root_scope_from(pathstr, scope) ==
  IF scope >= CTF_SCOPE_PACKET_HEADER + Len(absolute_path_prefixes)
  THEN CTF_SCOPE_PACKET_UNKNOWN
  ELSE IF strncmp_prefix_equal(pathstr, absolute_path_prefixes[scope + 1])
  THEN scope
  ELSE get_root_scope_from(pathstr, scope + 1)

get_root_scope_from_absolute_pathstr(pathstr) ==
  get_root_scope_from(pathstr, CTF_SCOPE_PACKET_HEADER)

\* `at` and `last` are 1-based positions; position Len(pathstr) + 1 is the
\* terminating NUL.  The result <<>> is the NULL list returned on error.
RECURSIVE pathstr_to_ptokens_from(_, _, _, _)
pathstr_to_ptokens_from(pathstr, at, last, ptokens) ==
  IF at > Len(pathstr) \/ pathstr[at] = "."
  THEN IF at = last
       THEN <<>>
       ELSE LET appended == Append(ptokens, SubSeq(pathstr, last, at - 1))
            IN IF at > Len(pathstr)
               THEN appended
               ELSE pathstr_to_ptokens_from(pathstr, at + 1, at + 1, appended)
  ELSE pathstr_to_ptokens_from(pathstr, at + 1, last, ptokens)

\* Mutant of pathstr_to_ptokens: a leading '.' is skipped.
pathstr_to_ptokens_leading_dot_skipped(pathstr) ==
  IF pathstr # <<>> /\ pathstr[1] = "."
  THEN pathstr_to_ptokens_from(pathstr, 2, 2, <<>>)
  ELSE pathstr_to_ptokens_from(pathstr, 1, 1, <<>>)

\* Mutant of pathstr_to_ptokens: a trailing '.' is dropped.
pathstr_to_ptokens_trailing_dot_dropped(pathstr) ==
  IF pathstr # <<>> /\ pathstr[Len(pathstr)] = "."
  THEN pathstr_to_ptokens_from(SubSeq(pathstr, 1, Len(pathstr) - 1), 1, 1, <<>>)
  ELSE pathstr_to_ptokens_from(pathstr, 1, 1, <<>>)

pathstr_to_ptokens(pathstr) == pathstr_to_ptokens_from(pathstr, 1, 1, <<>>)

\* g_list_nth(): the sub-list starting at the n-th element, NULL past the end.
g_list_nth(ptokens, n) == SubSeq(ptokens, n + 1, Len(ptokens))

(***************************************************************************)
(* Target locator.                                                         *)
(***************************************************************************)
RECURSIVE ptokens_to_field_path_loop(_, _, _, _, _, _)
ptokens_to_field_path_loop(F, cur_ptoken, field_path, fc, src_index, first_level_done) ==
  IF cur_ptoken = <<>>
  THEN [ret |-> 0, field_path |-> field_path]
  ELSE IF IsArrayBase(F[fc].type)
  THEN ptokens_to_field_path_loop(F, cur_ptoken,
         ctf_field_path_append_index(field_path, -1),
         ctf_field_class_compound_borrow_field_class_by_index(F, fc, -1),
         src_index, first_level_done)
  ELSE LET child_index ==
             ctf_field_class_compound_get_field_class_index_from_orig_name(
               F, fc, Head(cur_ptoken))
       IN IF child_index < 0
          THEN [ret |-> -1, field_path |-> field_path]
          ELSE IF child_index > src_index /\ ~first_level_done
          THEN [ret |-> -1, field_path |-> field_path]
          ELSE ptokens_to_field_path_loop(F, Tail(cur_ptoken),
                 ctf_field_path_append_index(field_path, child_index),
                 ctf_field_class_compound_borrow_field_class_by_index(F, fc, child_index),
                 src_index, TRUE)

\* Mutant of ptokens_to_field_path: the element class of an array or sequence
\* is entered with the index 0.
RECURSIVE ptokens_to_field_path_loop_element_zero(_, _, _, _, _, _)
ptokens_to_field_path_loop_element_zero(F, cur_ptoken, field_path, fc, src_index,
                                        first_level_done) ==
  IF cur_ptoken = <<>>
  THEN [ret |-> 0, field_path |-> field_path]
  ELSE IF IsArrayBase(F[fc].type)
  THEN ptokens_to_field_path_loop_element_zero(F, cur_ptoken,
         ctf_field_path_append_index(field_path, 0),
         ctf_field_class_compound_borrow_field_class_by_index(F, fc, -1),
         src_index, first_level_done)
  ELSE LET child_index ==
             ctf_field_class_compound_get_field_class_index_from_orig_name(
               F, fc, Head(cur_ptoken))
       IN IF child_index < 0
          THEN [ret |-> -1, field_path |-> field_path]
          ELSE IF child_index > src_index /\ ~first_level_done
          THEN [ret |-> -1, field_path |-> field_path]
          ELSE ptokens_to_field_path_loop_element_zero(F, Tail(cur_ptoken),
                 ctf_field_path_append_index(field_path, child_index),
                 ctf_field_class_compound_borrow_field_class_by_index(F, fc, child_index),
                 src_index, TRUE)

ptokens_to_field_path_element_zero(F, ptokens, field_path, fc, src_index) ==
  ptokens_to_field_path_loop_element_zero(F, ptokens, field_path, fc, src_index, FALSE)

\* Mutant of ptokens_to_field_path: the first level is never done, so the
\* index looked up at every level is compared with the source index.
RECURSIVE ptokens_to_field_path_loop_every_level(_, _, _, _, _)
ptokens_to_field_path_loop_every_level(F, cur_ptoken, field_path, fc, src_index) ==
  IF cur_ptoken = <<>>
  THEN [ret |-> 0, field_path |-> field_path]
  ELSE IF IsArrayBase(F[fc].type)
  THEN ptokens_to_field_path_loop_every_level(F, cur_ptoken,
         ctf_field_path_append_index(field_path, -1),
         ctf_field_class_compound_borrow_field_class_by_index(F, fc, -1),
         src_index)
  ELSE LET child_index ==
             ctf_field_class_compound_get_field_class_index_from_orig_name(
               F, fc, Head(cur_ptoken))
       IN IF child_index < 0 \/ child_index > src_index
          THEN [ret |-> -1, field_path |-> field_path]
          ELSE ptokens_to_field_path_loop_every_level(F, Tail(cur_ptoken),
                 ctf_field_path_append_index(field_path, child_index),
                 ctf_field_class_compound_borrow_field_class_by_index(F, fc, child_index),
                 src_index)

ptokens_to_field_path_every_level(F, ptokens, field_path, fc, src_index) ==
  ptokens_to_field_path_loop_every_level(F, ptokens, field_path, fc, src_index)

\* Mutant of ptokens_to_field_path: the first level starts as done, so no
\* index is compared with the source index.
ptokens_to_field_path_first_level_done(F, ptokens, field_path, fc, src_index) ==
  ptokens_to_field_path_loop(F, ptokens, field_path, fc, src_index, TRUE)

ptokens_to_field_path(F, ptokens, field_path, fc, src_index) ==
  ptokens_to_field_path_loop(F, ptokens, field_path, fc, src_index, FALSE)

\* Mutant of absolute_scope_available: the translated flag of the current
\* stream class is not tested.
absolute_scope_available_sc_flag_untested(T, c, root) ==
  CASE root = CTF_SCOPE_PACKET_HEADER -> ~T.is_translated
    [] root \in {CTF_SCOPE_PACKET_CONTEXT, CTF_SCOPE_EVENT_HEADER,
                 CTF_SCOPE_EVENT_COMMON_CONTEXT} ->
         c.sc # NULL
    [] root \in {CTF_SCOPE_EVENT_SPECIFIC_CONTEXT, CTF_SCOPE_EVENT_PAYLOAD} ->
         /\ c.ec # NULL
         /\ ~T.stream_classes[c.sc].event_classes[c.ec].is_translated

\* The precondition switch of absolute_ptokens_to_field_path(): TRUE when
\* the layer owning the root scope of `field_path` may be referred to.
absolute_scope_available(T, c, root) ==
  CASE root = CTF_SCOPE_PACKET_HEADER -> ~T.is_translated
    [] root \in {CTF_SCOPE_PACKET_CONTEXT, CTF_SCOPE_EVENT_HEADER,
                 CTF_SCOPE_EVENT_COMMON_CONTEXT} ->
         /\ c.sc # NULL
         /\ ~T.stream_classes[c.sc].is_translated
    [] root \in {CTF_SCOPE_EVENT_SPECIFIC_CONTEXT, CTF_SCOPE_EVENT_PAYLOAD} ->
         /\ c.ec # NULL
         /\ ~T.stream_classes[c.sc].event_classes[c.ec].is_translated

absolute_ptokens_to_field_path(F, T, ptokens, field_path, c) ==
  IF ~absolute_scope_available(T, c, field_path.root)
  THEN [ret |-> -1, field_path |-> field_path]
  ELSE LET cur_ptoken ==
             g_list_nth(ptokens, absolute_path_prefix_ptoken_counts[field_path.root + 1])
           fc == borrow_class_from_ctx(c, field_path.root)
       IN IF fc = NULL
          THEN [ret |-> -1, field_path |-> field_path]
          ELSE ptokens_to_field_path(F, cur_ptoken, field_path, fc, INT64_MAX)

\* Mutant of stitch_head: the indices of the frames above the frame of
\* `parent_class` are not put in front of the path.
stitch_head_left_out(stack, parent_class, i, field_path) == field_path

\* The stitching loop: the indices of the frames below the frame of
\* `parent_class`, outermost first.  `parent_class` was read from the stack.
RECURSIVE stitch_head(_, _, _, _)
stitch_head(stack, parent_class, i, field_path) ==
  IF field_class_stack_at(stack, i).fc = parent_class
  THEN field_path
  ELSE stitch_head(stack, parent_class, i + 1,
         ctf_field_path_append_index(field_path, field_class_stack_at(stack, i).index))

RECURSIVE relative_ptokens_loop(_, _, _, _, _)
relative_ptokens_loop(F, ptokens, field_path, c, parent_pos_in_stack) ==
  IF parent_pos_in_stack < 0
  THEN [ret |-> -1, field_path |-> field_path]
  ELSE LET frame == field_class_stack_at(c.field_class_stack, parent_pos_in_stack)
           tail == ptokens_to_field_path(F, ptokens, ctf_field_path_init, frame.fc, frame.index)
       IN IF tail.ret # 0
          THEN relative_ptokens_loop(F, ptokens, field_path, c, parent_pos_in_stack - 1)
          ELSE LET head == stitch_head(c.field_class_stack, frame.fc, 0, field_path)
               IN [ret |-> 0,
                   field_path |-> [head EXCEPT !.path = @ \o tail.field_path.path]]

\* Mutant of relative_ptokens_to_field_path: the innermost frame is skipped.
relative_ptokens_to_field_path_from_second_frame(F, ptokens, field_path, c) ==
  relative_ptokens_loop(F, ptokens, field_path, c,
                        field_class_stack_size(c.field_class_stack) - 2)

relative_ptokens_to_field_path(F, ptokens, field_path, c) ==
  relative_ptokens_loop(F, ptokens, field_path, c,
                        field_class_stack_size(c.field_class_stack) - 1)

\* Mutant of pathstr_to_field_path: a relative expression starts from the
\* packet header scope.
pathstr_to_field_path_relative_from_packet_header(F, T, pathstr, field_path, c) ==
  LET ptokens == pathstr_to_ptokens(pathstr)
      root_scope == get_root_scope_from_absolute_pathstr(pathstr)
  IN IF ptokens = <<>>
     THEN [ret |-> -1, field_path |-> field_path]
     ELSE IF root_scope = CTF_SCOPE_PACKET_UNKNOWN
     THEN relative_ptokens_to_field_path(F, ptokens,
            [field_path EXCEPT !.root = CTF_SCOPE_PACKET_HEADER], c)
     ELSE absolute_ptokens_to_field_path(F, T, ptokens,
            [field_path EXCEPT !.root = root_scope], c)

pathstr_to_field_path(F, T, pathstr, field_path, c) ==
  LET ptokens == pathstr_to_ptokens(pathstr)
      root_scope == get_root_scope_from_absolute_pathstr(pathstr)
  IN IF ptokens = <<>>
     THEN [ret |-> -1, field_path |-> field_path]
     ELSE IF root_scope = CTF_SCOPE_PACKET_UNKNOWN
     THEN relative_ptokens_to_field_path(F, ptokens,
            [field_path EXCEPT !.root = c.root_scope], c)
     ELSE absolute_ptokens_to_field_path(F, T, ptokens,
            [field_path EXCEPT !.root = root_scope], c)

RECURSIVE field_path_walk(_, _, _, _)
field_path_walk(F, fc, path, i) ==
  IF i > Len(path) THEN fc
  ELSE field_path_walk(F,
         ctf_field_class_compound_borrow_field_class_by_index(F, fc, path[i]),
         path, i + 1)

field_path_to_field_class(F, field_path, c) ==
  LET fc == borrow_class_from_ctx(c, field_path.root)
  IN IF fc = NULL THEN NULL ELSE field_path_walk(F, fc, field_path.path, 1)

get_ctx_stack_field_path(c) ==
  [root |-> c.root_scope,
   path |-> [i \in 1..field_class_stack_size(c.field_class_stack) |->
               field_class_stack_at(c.field_class_stack, i - 1).index]]

(***************************************************************************)
(* Target validation.                                                      *)
(***************************************************************************)
RECURSIVE get_field_paths_lca_index_from(_, _, _)
get_field_paths_lca_index_from(field_path1, field_path2, lca_index) ==
  IF lca_index = Len(field_path2.path) \/ lca_index = Len(field_path1.path)
  THEN -1
  ELSE IF field_path1.path[lca_index + 1] # field_path2.path[lca_index + 1]
  THEN lca_index
  ELSE get_field_paths_lca_index_from(field_path1, field_path2, lca_index + 1)

get_field_paths_lca_index(field_path1, field_path2) ==
  get_field_paths_lca_index_from(field_path1, field_path2, 0)

\* Mutant of target_class_is_valid: the signedness of a length is not tested.
target_class_is_valid_any_sign(F, cur_fc, target_fc) ==
  IF F[cur_fc].type = CTF_FIELD_CLASS_TYPE_VARIANT
  THEN F[target_fc].type = CTF_FIELD_CLASS_TYPE_ENUM
  ELSE F[target_fc].type \in {CTF_FIELD_CLASS_TYPE_INT, CTF_FIELD_CLASS_TYPE_ENUM}

\* Mutant of target_class_is_valid: a sequence length must be an integer, and
\* a variant tag must be unsigned as well.
target_class_is_valid_integer_length_unsigned_tag(F, cur_fc, target_fc) ==
  IF F[cur_fc].type = CTF_FIELD_CLASS_TYPE_VARIANT
  THEN F[target_fc].type = CTF_FIELD_CLASS_TYPE_ENUM /\ ~F[target_fc].is_signed
  ELSE /\ F[target_fc].type = CTF_FIELD_CLASS_TYPE_INT
       /\ ~F[target_fc].is_signed

\* The class and properties a target must have for the class being resolved.
target_class_is_valid(F, cur_fc, target_fc) ==
  IF F[cur_fc].type = CTF_FIELD_CLASS_TYPE_VARIANT
  THEN F[target_fc].type = CTF_FIELD_CLASS_TYPE_ENUM
  ELSE /\ F[target_fc].type \in {CTF_FIELD_CLASS_TYPE_INT, CTF_FIELD_CLASS_TYPE_ENUM}
       /\ ~F[target_fc].is_signed

\* Mutant of validate_target_field_path: targets of the source's own root
\* scope are not compared with the source.
validate_target_field_path_no_causality(F, target_field_path, target_fc, c) ==
  LET ctx_field_path == get_ctx_stack_field_path(c)
  IN IF Len(target_field_path.path) = 0 THEN -1
     ELSE IF target_field_path.root > ctx_field_path.root THEN -1
     ELSE IF ~target_class_is_valid(F, c.cur_fc, target_fc) THEN -1
     ELSE 0

\* Mutant of validate_target_field_path: the roots are not compared.
validate_target_field_path_no_root_order(F, target_field_path, target_fc, c) ==
  LET ctx_field_path == get_ctx_stack_field_path(c)
      lca_index == get_field_paths_lca_index(target_field_path, ctx_field_path)
  IN IF Len(target_field_path.path) = 0 THEN -1
     ELSE IF /\ target_field_path.root = ctx_field_path.root
             /\ \/ lca_index < 0
                \/ target_field_path.path[lca_index + 1] >= ctx_field_path.path[lca_index + 1]
     THEN -1
     ELSE IF ~target_class_is_valid(F, c.cur_fc, target_fc) THEN -1
     ELSE 0

validate_target_field_path(F, target_field_path, target_fc, c) ==
  LET ctx_field_path == get_ctx_stack_field_path(c)
      lca_index == get_field_paths_lca_index(target_field_path, ctx_field_path)
  IN IF Len(target_field_path.path) = 0 THEN -1
     ELSE IF target_field_path.root > ctx_field_path.root THEN -1
     ELSE IF /\ target_field_path.root = ctx_field_path.root
             /\ \/ lca_index < 0
                \/ target_field_path.path[lca_index + 1] >= ctx_field_path.path[lca_index + 1]
     THEN -1
     ELSE IF ~target_class_is_valid(F, c.cur_fc, target_fc) THEN -1
     ELSE 0

(***************************************************************************)
(* Resolution of one sequence or variant field class: the arena after the  *)
(* attempt and the status.                                                 *)
(***************************************************************************)
\* Mutant of set_target: recording the target also empties the reference.
set_target_clearing_ref(F, fc, target_field_path, target_fc) ==
  IF F[fc].type = CTF_FIELD_CLASS_TYPE_SEQUENCE
  THEN [F EXCEPT ![fc].length_path =
                   ctf_field_path_copy_content(@, target_field_path),
                 ![fc].length_fc = target_fc,
                 ![fc].length_ref = NoPath]
  ELSE [F EXCEPT ![fc].tag_path =
                   ctf_field_path_copy_content(@, target_field_path),
                 ![fc].tag_fc = target_fc,
                 ![fc].tag_ref = NoPath]

set_target(F, fc, target_field_path, target_fc) ==
  IF F[fc].type = CTF_FIELD_CLASS_TYPE_SEQUENCE
  THEN [F EXCEPT ![fc].length_path =
                   ctf_field_path_copy_content(@, target_field_path),
                 ![fc].length_fc = target_fc]
  ELSE [F EXCEPT ![fc] = ctf_field_class_variant_set_tag_field_class(
                   [@ EXCEPT !.tag_path =
                      ctf_field_path_copy_content(@, target_field_path)],
                   target_fc)]

\* Mutant of resolve_sequence_or_variant_field_class: the target is recorded
\* before it is validated.
resolve_sequence_or_variant_field_class_write_first(F, T, fc, c) ==
  LET pathstr == IF F[fc].type = CTF_FIELD_CLASS_TYPE_SEQUENCE
                 THEN F[fc].length_ref ELSE F[fc].tag_ref
      found == pathstr_to_field_path(F, T, pathstr, ctf_field_path_init, c)
      target_fc == field_path_to_field_class(F, found.field_path, c)
      written == set_target(F, fc, found.field_path, target_fc)
  IN IF found.ret # 0 THEN [ret |-> found.ret, fcs |-> F]
     ELSE IF target_fc = NULL THEN [ret |-> -1, fcs |-> F]
     ELSE IF validate_target_field_path(F, found.field_path, target_fc, c) # 0
     THEN [ret |-> -1, fcs |-> written]
     ELSE [ret |-> 0, fcs |-> written]

resolve_sequence_or_variant_field_class(F, T, fc, c) ==
  LET pathstr == IF F[fc].type = CTF_FIELD_CLASS_TYPE_SEQUENCE
                 THEN F[fc].length_ref ELSE F[fc].tag_ref
      found == pathstr_to_field_path(F, T, pathstr, ctf_field_path_init, c)
      target_fc == field_path_to_field_class(F, found.field_path, c)
  IN IF found.ret # 0 THEN [ret |-> found.ret, fcs |-> F]
     ELSE IF target_fc = NULL THEN [ret |-> -1, fcs |-> F]
     ELSE IF validate_target_field_path(F, found.field_path, target_fc, c) # 0
     THEN [ret |-> -1, fcs |-> F]
     ELSE [ret |-> 0, fcs |-> set_target(F, fc, found.field_path, target_fc)]

(***************************************************************************)
(* Input trace classes.  A root field class is written as a tree and is    *)
(* laid out in the arena in pre-order from a base identifier.              *)
(***************************************************************************)
Leaf(type, is_signed, size) ==
  [type |-> type, is_signed |-> is_signed, size |-> size, ref |-> NoPath, kids |-> <<>>]

UInt32 == Leaf(CTF_FIELD_CLASS_TYPE_INT, FALSE, 32)
SInt32 == Leaf(CTF_FIELD_CLASS_TYPE_INT, TRUE, 32)
UInt8 == Leaf(CTF_FIELD_CLASS_TYPE_INT, FALSE, 8)
UEnum == Leaf(CTF_FIELD_CLASS_TYPE_ENUM, FALSE, 32)
SEnum == Leaf(CTF_FIELD_CLASS_TYPE_ENUM, TRUE, 32)
String == Leaf(CTF_FIELD_CLASS_TYPE_STRING, FALSE, 8)

Named(name, t) == [name |-> name, t |-> t]

Struct(members) ==
  [type |-> CTF_FIELD_CLASS_TYPE_STRUCT, is_signed |-> FALSE, size |-> 0,
   ref |-> NoPath, kids |-> members]

Variant(tag_ref, options) ==
  [type |-> CTF_FIELD_CLASS_TYPE_VARIANT, is_signed |-> FALSE, size |-> 0,
   ref |-> tag_ref, kids |-> options]

Array(elem) ==
  [type |-> CTF_FIELD_CLASS_TYPE_ARRAY, is_signed |-> FALSE, size |-> 0,
   ref |-> NoPath, kids |-> <<Named(NoPath, elem)>>]

Sequence(length_ref, elem) ==
  [type |-> CTF_FIELD_CLASS_TYPE_SEQUENCE, is_signed |-> FALSE, size |-> 0,
   ref |-> length_ref, kids |-> <<Named(NoPath, elem)>>]

\* An absent (NULL) root field class.
Absent ==
  [type |-> "ABSENT", is_signed |-> FALSE, size |-> 0, ref |-> NoPath, kids |-> <<>>]

RECURSIVE TreeSize(_), KidsSize(_, _)
TreeSize(t) == IF t.type = "ABSENT" THEN 0 ELSE 1 + KidsSize(t.kids, Len(t.kids))
KidsSize(kids, k) == IF k = 0 THEN 0 ELSE KidsSize(kids, k - 1) + TreeSize(kids[k].t)

KidId(t, base, i) == base + 1 + KidsSize(t.kids, i - 1)

\* The arena node of the root of tree `t` placed at identifier `base`.
NewFieldClass(t, base) ==
  [type |-> t.type,
   is_signed |-> t.is_signed,
   size |-> t.size,
   members |-> IF IsArrayBase(t.type) THEN <<>>
               ELSE [i \in 1..Len(t.kids) |->
                       [name |-> t.kids[i].name, fc |-> KidId(t, base, i)]],
   elem_fc |-> IF IsArrayBase(t.type) THEN KidId(t, base, 1) ELSE NULL,
   length_ref |-> IF t.type = CTF_FIELD_CLASS_TYPE_SEQUENCE THEN t.ref ELSE NoPath,
   length_path |-> ctf_field_path_init,
   length_fc |-> NULL,
   tag_ref |-> IF t.type = CTF_FIELD_CLASS_TYPE_VARIANT THEN t.ref ELSE NoPath,
   tag_path |-> ctf_field_path_init,
   tag_fc |-> NULL]

RECURSIVE Flatten(_, _), FlattenKids(_, _, _)
Flatten(t, base) ==
  IF t.type = "ABSENT" THEN <<>>
  ELSE (base :> NewFieldClass(t, base)) @@ FlattenKids(t, base, Len(t.kids))
FlattenKids(t, base, k) ==
  IF k = 0 THEN <<>>
  ELSE FlattenKids(t, base, k - 1) @@ Flatten(t.kids[k].t, KidId(t, base, k))

\* Path strings used by the input trace classes.
Str_n == <<"n">>
Str_k == <<"k">>
Str_s == <<"s">>
Str_z == <<"z">>
Str_v == <<"v">>
Str_a == <<"a">>
Str_b == <<"b">>
Str_c == <<"c">>
Str_d == <<"d">>
Str_m == <<"m">>
Str_r == <<"r">>
Str_x == <<"x">>
Dot == <<".">>

Abs(scope, name) == absolute_path_prefixes[scope + 1] \o name

\* The root of every layer that the input does not single out.
DefaultRoot ==
  Struct(<<Named(Str_n, UInt32), Named(Str_k, UEnum),
           Named(Str_s, Sequence(Str_n, UInt8))>>)

Sib(target, ref) ==
  Struct(<<Named(Str_n, target), Named(Str_s, Sequence(ref, UInt8)),
           Named(Str_z, UInt32)>>)

Var(target, ref) ==
  Struct(<<Named(Str_k, target),
           Named(Str_v, Variant(ref, <<Named(Str_a, UInt32),
                                       Named(Str_b, Sequence(Str_a, UInt8))>>))>>)

Nest(ref) ==
  Struct(<<Named(Str_n, UInt32),
           Named(Str_a, Struct(<<Named(Str_b, UInt32),
                                 Named(Str_c, Sequence(ref, UInt8)),
                                 Named(Str_d, UInt32)>>))>>)

Arr(ref) ==
  Struct(<<Named(Str_n, UInt32),
           Named(Str_r, Array(Struct(<<Named(Str_m, UInt32),
                                       Named(Str_s, Sequence(ref, UInt8)),
                                       Named(Str_z, UInt32)>>)))>>)

\* A sequence in a structure that has a member named like a member of the
\* structure around it.
Shadow(ref) ==
  Struct(<<Named(Str_b, UInt32),
           Named(Str_a, Struct(<<Named(Str_b, UInt32),
                                 Named(Str_c, Sequence(ref, UInt8))>>))>>)

\* A root that is itself a sequence.
RootSequence(ref) == Sequence(ref, UInt8)

RelativeRefs ==
  {Str_z, Str_s, Str_x, Str_k, <<>>, Str_n \o Dot, Dot \o Str_n, Str_n \o Dot \o Dot \o Str_z,
   <<"e", "v", "e", "n", "t", ".", "f", "i", "e", "l", "d", "s">>}

\* The root field classes tried at the scope `scope` the input singles out.
FocusRoots(scope) ==
  {Absent}
  \cup {Sib(t, Str_n) : t \in {UInt32, SInt32, UEnum, SEnum, String}}
  \cup {Sib(UInt32, r) : r \in RelativeRefs}
  \cup {Sib(UInt32, Abs(s, Str_n)) : s \in Scopes}
  \cup {Sib(UInt32, Abs(scope, r)) : r \in {Str_s, Str_z}}
  \cup {Sib(UInt32, Abs(s, <<>>)) : s \in Scopes}
  \cup {Var(t, Str_k) : t \in {UEnum, SEnum, UInt32, String}}
  \cup {Var(UEnum, Abs(s, Str_k)) : s \in Scopes}
  \cup {Var(UEnum, Abs(scope, Str_v \o Dot \o Str_a))}
  \cup {Nest(r) : r \in {Str_b, Str_n, Str_a, Str_a \o Dot \o Str_b,
                         Str_a \o Dot \o Str_d, Str_c, Str_d}}
  \cup {Arr(r) : r \in {Str_m, Str_n, Str_r \o Dot \o Str_m, Str_r, Str_z}}
  \cup {Shadow(Str_b), RootSequence(Str_n)}

BlockSize == TreeSize(Arr(Str_m))

\* Position of a root in the arena: the packet header, then for each stream
\* class its three roots followed by the two roots of each event class.
RootsPerStreamClass == 3 + 2 * NumEventClasses
RootPos(scope, si, ei) ==
  IF scope = CTF_SCOPE_PACKET_HEADER THEN 0
  ELSE IF scope <= CTF_SCOPE_EVENT_COMMON_CONTEXT
  THEN 1 + (si - 1) * RootsPerStreamClass + (scope - CTF_SCOPE_PACKET_CONTEXT)
  ELSE 1 + (si - 1) * RootsPerStreamClass + 3 + (ei - 1) * 2
         + (scope - CTF_SCOPE_EVENT_SPECIFIC_CONTEXT)
RootBase(scope, si, ei) == RootPos(scope, si, ei) * BlockSize + 1

StreamIndexes == 1..NumStreamClasses
EventIndexes == 1..NumEventClasses

\* The layers the input singles out: the first and the last.
FocusLayers == {<<1, 1>>, <<NumStreamClasses, NumEventClasses>>}

\* `absent` names a scope whose roots are absent outside the root singled out
\* (CTF_SCOPE_PACKET_UNKNOWN: none).
Focuses == [scope : Scopes, layer : FocusLayers, absent : {CTF_SCOPE_PACKET_UNKNOWN}]

\* The first layer singled out, with the roots of an earlier scope absent.
AbsentFocuses ==
  {f \in [scope : Scopes, layer : {<<1, 1>>}, absent : Scopes] : f.absent < f.scope}

IsFocus(f, scope, si, ei) ==
  /\ f.scope = scope
  /\ scope = CTF_SCOPE_PACKET_HEADER \/ si = f.layer[1]
  /\ scope <= CTF_SCOPE_EVENT_COMMON_CONTEXT \/ ei = f.layer[2]

RootTree(f, t, scope, si, ei) ==
  IF IsFocus(f, scope, si, ei) THEN t
  ELSE IF scope = f.absent THEN Absent
  ELSE DefaultRoot

RootId(f, t, scope, si, ei) ==
  IF RootTree(f, t, scope, si, ei).type = "ABSENT" THEN NULL
  ELSE RootBase(scope, si, ei)

AllRoots ==
  {<<CTF_SCOPE_PACKET_HEADER, 1, 1>>}
  \cup {<<sc, si, 1>> : sc \in {CTF_SCOPE_PACKET_CONTEXT, CTF_SCOPE_EVENT_HEADER,
                               CTF_SCOPE_EVENT_COMMON_CONTEXT}, si \in StreamIndexes}
  \cup {<<sc, si, ei>> : sc \in {CTF_SCOPE_EVENT_SPECIFIC_CONTEXT, CTF_SCOPE_EVENT_PAYLOAD},
                         si \in StreamIndexes, ei \in EventIndexes}

RECURSIVE MergeAll(_)
MergeAll(fs) ==
  IF fs = {} THEN <<>>
  ELSE LET f == CHOOSE g \in fs : TRUE IN f @@ MergeAll(fs \ {f})

NewArena(f, t) ==
  MergeAll({Flatten(RootTree(f, t, r[1], r[2], r[3]), RootBase(r[1], r[2], r[3])) :
            r \in AllRoots})

\* Translated flags: the trace class, the stream class and the event class
\* singled out have their own flag; all other layers share one.
NewTraceClass(f, t, tcT, scT, ecT, restT) ==
  [is_translated |-> tcT,
   packet_header_fc |-> RootId(f, t, CTF_SCOPE_PACKET_HEADER, 1, 1),
   stream_classes |->
     [si \in StreamIndexes |->
        [is_translated |-> IF si = f.layer[1] THEN scT ELSE restT,
         packet_context_fc |-> RootId(f, t, CTF_SCOPE_PACKET_CONTEXT, si, 1),
         event_header_fc |-> RootId(f, t, CTF_SCOPE_EVENT_HEADER, si, 1),
         event_common_context_fc |-> RootId(f, t, CTF_SCOPE_EVENT_COMMON_CONTEXT, si, 1),
         event_classes |->
           [ei \in EventIndexes |->
              [is_translated |->
                 IF si = f.layer[1] /\ ei = f.layer[2] THEN ecT ELSE restT,
               spec_context_fc |-> RootId(f, t, CTF_SCOPE_EVENT_SPECIFIC_CONTEXT, si, ei),
               payload_fc |-> RootId(f, t, CTF_SCOPE_EVENT_PAYLOAD, si, ei)]]]]]

(***************************************************************************)
(* State.                                                                  *)
(*   tc, fcs    the trace class (layers, flags, root pointers) and the     *)
(*              arena of its field classes                                 *)
(*   ctx        the resolve_context of the running call                    *)
(*   pc, cont   position in the driver, and the position to which          *)
(*              resolve_root_class() returns                               *)
(*   ret        the status being propagated                                *)
(*   tc_i, sc_i the loop counters of the stream class and event class      *)
(*              loops                                                      *)
(*   root_arg   the argument of resolve_root_class()                       *)
(*   arg_fc     the argument of the next resolve_field_class() call        *)
(*   calls      the activations of resolve_field_class() that are in their *)
(*              child loop, outermost first, each with its counter i       *)
(*   run        number of the call                                         *)
(*   roots_log  the resolve_root_class() calls of this call, in order      *)
(*   visited    the field classes resolve_field_class() was called on in   *)
(*              this call, in order                                        *)
(*   failed_fc  the field class whose resolution failed in this call       *)
(*                                                                         *)
(* The state of the library functions that are specified further down:     *)
(*                                                                         *)
(*   tm          the struct tm given to bt_timegm()                        *)
(*   timegm_ret  the value bt_timegm() returned                            *)
(*   errno       errno                                                     *)
(*   dlist       the next and prev pointers of the list nodes              *)
(*   dlist_old   dlist as it was before the last bt_list_splice()          *)
(*   objstack    the nodes of the object stack, in list order              *)
(*   regions     the regions objstack_alloc() returned, in order           *)
(*   fcs_given   the field classes as they were given to                   *)
(*               ctf_trace_class_update_text_array_sequence()              *)
(***************************************************************************)
VARIABLES tc, fcs, ctx, pc, cont, ret, tc_i, sc_i, root_arg, arg_fc, calls,
          run, roots_log, visited, failed_fc,
          tm, timegm_ret, errno, dlist, dlist_old, objstack, regions,
          fcs_given

resolver_vars == <<ctx, cont, root_arg, arg_fc, calls, run, roots_log, visited,
                   failed_fc>>

timegm_vars == <<tm, timegm_ret, errno>>

dlist_vars == <<dlist, dlist_old>>

objstack_vars == <<objstack, regions>>

text_vars == <<fcs_given>>

lib_vars == <<timegm_vars, dlist_vars, objstack_vars, text_vars>>

vars == <<tc, fcs, ctx, pc, cont, ret, tc_i, sc_i, root_arg, arg_fc, calls,
          run, roots_log, visited, failed_fc, lib_vars>>

NewContext ==
  [sc |-> NULL, ec |-> NULL,
   scopes |-> [packet_header |-> NULL, packet_context |-> NULL,
               event_header |-> NULL, event_common_context |-> NULL,
               event_spec_context |-> NULL, event_payload |-> NULL],
   root_scope |-> CTF_SCOPE_PACKET_HEADER,
   field_class_stack |-> <<>>,
   cur_fc |-> NULL]

\* The inputs: every root tried at every scope, in the first and in the last
\* layers, with the flags of a freshly parsed trace class (all FALSE), and
\* the roots of FlaggedRoots with every combination of translated flags, and
\* references to the roots of an earlier scope that are absent.
Flags == [tc : BOOLEAN, sc : BOOLEAN, ec : BOOLEAN, rest : BOOLEAN]
FreshFlags == [tc |-> FALSE, sc |-> FALSE, ec |-> FALSE, rest |-> FALSE]

FlaggedRoots(scope) ==
  {Absent, Sib(UInt32, Str_n), Var(UEnum, Str_k)}
  \cup {Sib(UInt32, Abs(s, Str_n)) : s \in Scopes}

Inputs ==
  {[f |-> f, t |-> t, flags |-> FreshFlags] :
     f \in Focuses, t \in UNION {FocusRoots(s) : s \in Scopes}}
  \cup {[f |-> f, t |-> t, flags |-> fl] :
          f \in {g \in Focuses : g.layer = <<1, 1>>},
          t \in UNION {FlaggedRoots(s) : s \in Scopes}, fl \in Flags}
  \cup {[f |-> f, t |-> Sib(UInt32, Abs(f.absent, Str_n)), flags |-> FreshFlags] :
          f \in AbsentFocuses}

\* The values the variables of a part of the program hold while a
\* specification of another part runs.
ResolverIdle ==
  /\ ctx = NewContext
  /\ cont = "none"
  /\ root_arg = CTF_SCOPE_PACKET_UNKNOWN
  /\ arg_fc = NULL
  /\ calls = <<>>
  /\ run = 1
  /\ roots_log = <<>>
  /\ visited = <<>>
  /\ failed_fc = NULL

TimegmIdle ==
  /\ tm = <<>>
  /\ timegm_ret = 0
  /\ errno = "none"

DlistIdle ==
  /\ dlist = <<>>
  /\ dlist_old = <<>>

ObjstackIdle ==
  /\ objstack = <<>>
  /\ regions = <<>>

TextIdle == fcs_given = <<>>

Init ==
  \E in \in Inputs :
    /\ in.t \in FocusRoots(in.f.scope)
    /\ tc = NewTraceClass(in.f, in.t, in.flags.tc, in.flags.sc, in.flags.ec, in.flags.rest)
    /\ fcs = NewArena(in.f, in.t)
    /\ ctx = NewContext
    /\ pc = "tc_begin"
    /\ cont = "none"
    /\ ret = 0
    /\ tc_i = 0
    /\ sc_i = 0
    /\ root_arg = CTF_SCOPE_PACKET_UNKNOWN
    /\ arg_fc = NULL
    /\ calls = <<>>
    /\ run = 1
    /\ roots_log = <<>>
    /\ visited = <<>>
    /\ failed_fc = NULL
    /\ TimegmIdle
    /\ DlistIdle
    /\ ObjstackIdle
    /\ TextIdle

\* The stream class and the event class the loops are at.
cur_sc == tc.stream_classes[tc_i + 1]
cur_ec == cur_sc.event_classes[sc_i + 1]

\* A call of resolve_root_class(root_scope, ctx) that returns to `label`.
call_resolve_root_class(root_scope, label) ==
  /\ root_arg' = root_scope
  /\ cont' = label
  /\ pc' = "root_begin"

\* The stream class loop of ctf_trace_class_resolve_field_classes() at i.
stream_classes_loop(i) ==
  /\ tc_i' = i
  /\ pc' = IF i < Len(tc.stream_classes) THEN "sc_begin" ELSE "tc_end"

\* The event class loop of resolve_stream_class_field_classes() at i.
event_classes_loop(i) ==
  /\ sc_i' = i
  /\ pc' = IF i < Len(cur_sc.event_classes) THEN "ec_begin" ELSE "sc_end"

(***************************************************************************)
(* resolve_field_class(): one activation per action.  The action enters    *)
(* the class `arg_fc`, resolves it when it is a sequence or a variant,     *)
(* pushes it when it is compound, and runs the child loops up to the next  *)
(* recursive call.  When the outermost activation returns, with 0 or with  *)
(* an error, resolve_root_class() resets the root scope and returns the    *)
(* status to its caller.                                                   *)
(***************************************************************************)
RECURSIVE resolve_field_class_loop(_, _, _), resolve_field_class_returned(_, _, _)
\* Mutant of resolve_field_class_loop: the index of the top frame is left as
\* field_class_stack_push() set it.
resolve_field_class_loop_index_unset(F, cs, stack) ==
  LET top == cs[Len(cs)]
  IN IF top.i < ctf_field_class_compound_get_field_class_count(F, top.fc)
     THEN [calls |-> cs,
           stack |-> stack,
           arg_fc |-> ctf_field_class_compound_borrow_field_class_by_index(F, top.fc, top.i),
           returned |-> FALSE]
     ELSE resolve_field_class_returned(F, SubSeq(cs, 1, Len(cs) - 1),
                                       field_class_stack_pop(stack))
\* The child loop of the innermost activation.
resolve_field_class_loop(F, cs, stack) ==
  LET top == cs[Len(cs)]
  IN IF top.i < ctf_field_class_compound_get_field_class_count(F, top.fc)
     THEN [calls |-> cs,
           stack |-> [stack EXCEPT ![Len(stack)].index =
                        IF IsArrayBase(F[top.fc].type) THEN -1 ELSE top.i],
           arg_fc |-> ctf_field_class_compound_borrow_field_class_by_index(F, top.fc, top.i),
           returned |-> FALSE]
     ELSE resolve_field_class_returned(F, SubSeq(cs, 1, Len(cs) - 1),
                                       field_class_stack_pop(stack))
\* Mutant of resolve_field_class_returned: the child loop does not advance.
resolve_field_class_returned_counter_kept(F, cs, stack) ==
  IF cs = <<>>
  THEN [calls |-> cs, stack |-> stack, arg_fc |-> NULL, returned |-> TRUE]
  ELSE resolve_field_class_loop(F, cs, stack)

\* An activation returned 0 to the activation that called it.
resolve_field_class_returned(F, cs, stack) ==
  IF cs = <<>>
  THEN [calls |-> cs, stack |-> stack, arg_fc |-> NULL, returned |-> TRUE]
  ELSE resolve_field_class_loop(F, [cs EXCEPT ![Len(cs)].i = @ + 1], stack)

resolve_field_class ==
  /\ pc = "field_class"
  /\ LET fc == arg_fc
         c1 == [ctx EXCEPT !.cur_fc = fc]
         isRef == fcs[fc].type \in {CTF_FIELD_CLASS_TYPE_SEQUENCE,
                                    CTF_FIELD_CLASS_TYPE_VARIANT}
         r == IF isRef
              THEN resolve_sequence_or_variant_field_class(fcs, tc, fc, c1)
              ELSE [ret |-> 0, fcs |-> fcs]
         nxt == IF IsCompound(fcs[fc].type)
                THEN resolve_field_class_loop(r.fcs,
                       Append(calls, [fc |-> fc, i |-> 0]),
                       field_class_stack_push(c1.field_class_stack, fc))
                ELSE resolve_field_class_returned(r.fcs, calls, c1.field_class_stack)
     IN /\ visited' = Append(visited, fc)
        /\ fcs' = r.fcs
        /\ ret' = r.ret
        /\ IF r.ret # 0
           THEN /\ failed_fc' = fc
                /\ ctx' = [c1 EXCEPT !.root_scope = CTF_SCOPE_PACKET_UNKNOWN]
                /\ calls' = <<>>
                /\ arg_fc' = NULL
                /\ pc' = cont
           ELSE /\ failed_fc' = failed_fc
                /\ ctx' = [c1 EXCEPT !.field_class_stack = nxt.stack,
                                     !.root_scope = IF nxt.returned
                                                    THEN CTF_SCOPE_PACKET_UNKNOWN ELSE @]
                /\ calls' = nxt.calls
                /\ arg_fc' = nxt.arg_fc
                /\ pc' = IF nxt.returned THEN cont ELSE "field_class"
  /\ UNCHANGED lib_vars
  /\ UNCHANGED <<tc, cont, tc_i, sc_i, root_arg, run, roots_log>>

(***************************************************************************)
(* resolve_root_class(): the entry assertion, and the call of              *)
(* resolve_field_class() on the class of the root scope, which returns 0   *)
(* at once when that class is absent.                                      *)
(***************************************************************************)
resolve_root_class ==
  /\ pc = "root_begin"
  /\ roots_log' = Append(roots_log,
       [scope |-> root_arg, fc |-> borrow_class_from_ctx(ctx, root_arg)])
  /\ IF field_class_stack_size(ctx.field_class_stack) # 0
     THEN /\ pc' = "abort"
          /\ UNCHANGED <<ctx, arg_fc, ret>>
     ELSE IF borrow_class_from_ctx(ctx, root_arg) = NULL
     THEN /\ ctx' = [ctx EXCEPT !.root_scope = CTF_SCOPE_PACKET_UNKNOWN]
          /\ ret' = 0
          /\ pc' = cont
          /\ UNCHANGED arg_fc
     ELSE /\ ctx' = [ctx EXCEPT !.root_scope = root_arg]
          /\ arg_fc' = borrow_class_from_ctx(ctx, root_arg)
          /\ pc' = "field_class"
          /\ UNCHANGED ret
  /\ UNCHANGED lib_vars
  /\ UNCHANGED <<tc, fcs, cont, tc_i, sc_i, root_arg, calls, run, visited, failed_fc>>

(***************************************************************************)
(* resolve_event_class_field_classes().                                    *)
(***************************************************************************)
\* Mutant of resolve_event_class_field_classes: the translated flag of the
\* event class is not tested.
resolve_event_class_field_classes_flag_untested ==
  /\ pc = "ec_begin"
  /\ IF ctx.scopes.event_spec_context # NULL \/ ctx.scopes.event_payload # NULL
     THEN /\ pc' = "abort"
          /\ UNCHANGED <<ctx, cont, root_arg>>
     ELSE /\ ctx' = [ctx EXCEPT !.ec = sc_i + 1,
                                !.scopes.event_spec_context = cur_ec.spec_context_fc]
          /\ call_resolve_root_class(CTF_SCOPE_EVENT_COMMON_CONTEXT, "ec_after_spec_context")
  /\ UNCHANGED lib_vars
  /\ UNCHANGED <<tc, fcs, ret, tc_i, sc_i, arg_fc, calls, run, roots_log, visited,
                 failed_fc>>

resolve_event_class_field_classes ==
  /\ pc = "ec_begin"
  /\ IF ctx.scopes.event_spec_context # NULL \/ ctx.scopes.event_payload # NULL
     THEN /\ pc' = "abort"
          /\ UNCHANGED <<ctx, cont, root_arg>>
     ELSE IF cur_ec.is_translated
     THEN /\ pc' = "ec_end"
          /\ UNCHANGED <<ctx, cont, root_arg>>
     ELSE /\ ctx' = [ctx EXCEPT !.ec = sc_i + 1,
                                !.scopes.event_spec_context = cur_ec.spec_context_fc]
          /\ call_resolve_root_class(CTF_SCOPE_EVENT_COMMON_CONTEXT, "ec_after_spec_context")
  /\ UNCHANGED lib_vars
  /\ UNCHANGED <<tc, fcs, ret, tc_i, sc_i, arg_fc, calls, run, roots_log, visited,
                 failed_fc>>

\* Mutant of ec_spec_context_resolved: the status of the first root is ignored
\* and the event payload is resolved from an emptied stack.
ec_spec_context_resolved_status_ignored ==
  /\ pc = "ec_after_spec_context"
  /\ ctx' = [ctx EXCEPT !.scopes.event_payload = cur_ec.payload_fc,
                        !.field_class_stack = <<>>]
  /\ call_resolve_root_class(CTF_SCOPE_EVENT_PAYLOAD, "ec_end")
  /\ UNCHANGED lib_vars
  /\ UNCHANGED <<tc, fcs, ret, tc_i, sc_i, arg_fc, calls, run, roots_log, visited,
                 failed_fc>>

\* After the first root; the event payload call returns to the `end` label.
ec_spec_context_resolved ==
  /\ pc = "ec_after_spec_context"
  /\ IF ret # 0
     THEN /\ pc' = "ec_end"
          /\ UNCHANGED <<ctx, cont, root_arg>>
     ELSE /\ ctx' = [ctx EXCEPT !.scopes.event_payload = cur_ec.payload_fc]
          /\ call_resolve_root_class(CTF_SCOPE_EVENT_PAYLOAD, "ec_end")
  /\ UNCHANGED lib_vars
  /\ UNCHANGED <<tc, fcs, ret, tc_i, sc_i, arg_fc, calls, run, roots_log, visited,
                 failed_fc>>

\* Mutant of resolve_event_class_field_classes_end: the event payload scope
\* is not reset.
resolve_event_class_field_classes_end_payload_kept ==
  /\ pc = "ec_end"
  /\ ctx' = [ctx EXCEPT !.scopes.event_spec_context = NULL,
                        !.ec = NULL]
  /\ IF ret # 0
     THEN pc' = "sc_end" /\ sc_i' = sc_i
     ELSE event_classes_loop(sc_i + 1)
  /\ UNCHANGED lib_vars
  /\ UNCHANGED <<tc, fcs, cont, ret, tc_i, root_arg, arg_fc, calls, run,
                 roots_log, visited, failed_fc>>

\* The `end` label, and the test of the status in the event class loop.
resolve_event_class_field_classes_end ==
  /\ pc = "ec_end"
  /\ ctx' = [ctx EXCEPT !.scopes.event_spec_context = NULL,
                        !.scopes.event_payload = NULL,
                        !.ec = NULL]
  /\ IF ret # 0
     THEN pc' = "sc_end" /\ sc_i' = sc_i
     ELSE event_classes_loop(sc_i + 1)
  /\ UNCHANGED lib_vars
  /\ UNCHANGED <<tc, fcs, cont, ret, tc_i, root_arg, arg_fc, calls, run,
                 roots_log, visited, failed_fc>>

(***************************************************************************)
(* resolve_stream_class_field_classes().                                   *)
(***************************************************************************)
\* Mutant of set_stream_class_scopes: the event common context scope is set
\* from the event header class.
set_stream_class_scopes_common_context_from_header(c, sc) ==
  [c EXCEPT !.scopes.packet_context = sc.packet_context_fc,
            !.scopes.event_header = sc.event_header_fc,
            !.scopes.event_common_context = sc.event_header_fc]

set_stream_class_scopes(c, sc) ==
  [c EXCEPT !.scopes.packet_context = sc.packet_context_fc,
            !.scopes.event_header = sc.event_header_fc,
            !.scopes.event_common_context = sc.event_common_context_fc]

resolve_stream_class_field_classes ==
  /\ pc = "sc_begin"
  /\ IF \/ ctx.scopes.packet_context # NULL
        \/ ctx.scopes.event_header # NULL
        \/ ctx.scopes.event_common_context # NULL
     THEN /\ pc' = "abort"
          /\ UNCHANGED <<ctx, cont, root_arg, sc_i>>
     ELSE IF ~cur_sc.is_translated
     THEN /\ ctx' = [ctx EXCEPT !.sc = tc_i + 1,
                                !.scopes.packet_context = cur_sc.packet_context_fc]
          /\ call_resolve_root_class(CTF_SCOPE_PACKET_CONTEXT, "sc_after_packet_context")
          /\ UNCHANGED sc_i
     ELSE /\ ctx' = set_stream_class_scopes([ctx EXCEPT !.sc = tc_i + 1], cur_sc)
          /\ event_classes_loop(0)
          /\ UNCHANGED <<cont, root_arg>>
  /\ UNCHANGED lib_vars
  /\ UNCHANGED <<tc, fcs, ret, tc_i, arg_fc, calls, run, roots_log, visited, failed_fc>>

sc_packet_context_resolved ==
  /\ pc = "sc_after_packet_context"
  /\ IF ret # 0
     THEN /\ pc' = "sc_end"
          /\ UNCHANGED <<ctx, cont, root_arg>>
     ELSE /\ ctx' = [ctx EXCEPT !.scopes.event_header = cur_sc.event_header_fc]
          /\ call_resolve_root_class(CTF_SCOPE_EVENT_HEADER, "sc_after_event_header")
  /\ UNCHANGED lib_vars
  /\ UNCHANGED <<tc, fcs, ret, tc_i, sc_i, arg_fc, calls, run, roots_log, visited,
                 failed_fc>>

sc_event_header_resolved ==
  /\ pc = "sc_after_event_header"
  /\ IF ret # 0
     THEN /\ pc' = "sc_end"
          /\ UNCHANGED <<ctx, cont, root_arg>>
     ELSE /\ ctx' = [ctx EXCEPT !.scopes.event_common_context =
                                  cur_sc.event_common_context_fc]
          /\ call_resolve_root_class(CTF_SCOPE_EVENT_COMMON_CONTEXT,
                                     "sc_after_event_common_context")
  /\ UNCHANGED lib_vars
  /\ UNCHANGED <<tc, fcs, ret, tc_i, sc_i, arg_fc, calls, run, roots_log, visited,
                 failed_fc>>

sc_event_common_context_resolved ==
  /\ pc = "sc_after_event_common_context"
  /\ IF ret # 0
     THEN /\ pc' = "sc_end"
          /\ UNCHANGED <<ctx, sc_i>>
     ELSE /\ ctx' = set_stream_class_scopes(ctx, cur_sc)
          /\ event_classes_loop(0)
  /\ UNCHANGED lib_vars
  /\ UNCHANGED <<tc, fcs, cont, ret, tc_i, root_arg, arg_fc, calls, run,
                 roots_log, visited, failed_fc>>

\* The `end` label, and the test of the status in the stream class loop.
resolve_stream_class_field_classes_end ==
  /\ pc = "sc_end"
  /\ ctx' = [ctx EXCEPT !.scopes.packet_context = NULL,
                        !.scopes.event_header = NULL,
                        !.scopes.event_common_context = NULL,
                        !.sc = NULL]
  /\ IF ret # 0
     THEN pc' = "tc_end" /\ tc_i' = tc_i
     ELSE stream_classes_loop(tc_i + 1)
  /\ UNCHANGED lib_vars
  /\ UNCHANGED <<tc, fcs, cont, ret, sc_i, root_arg, arg_fc, calls, run,
                 roots_log, visited, failed_fc>>

(***************************************************************************)
(* ctf_trace_class_resolve_field_classes().                                *)
(***************************************************************************)
ctf_trace_class_resolve_field_classes ==
  /\ pc = "tc_begin"
  /\ ctx' = [NewContext EXCEPT !.scopes.packet_header = tc.packet_header_fc,
                               !.root_scope = CTF_SCOPE_PACKET_HEADER]
  /\ ret' = 0
  /\ roots_log' = <<>>
  /\ visited' = <<>>
  /\ failed_fc' = NULL
  /\ IF ~tc.is_translated
     THEN /\ call_resolve_root_class(CTF_SCOPE_PACKET_HEADER, "tc_after_packet_header")
          /\ UNCHANGED tc_i
     ELSE /\ stream_classes_loop(0)
          /\ UNCHANGED <<cont, root_arg>>
  /\ UNCHANGED lib_vars
  /\ UNCHANGED <<tc, fcs, sc_i, arg_fc, calls, run>>

tc_packet_header_resolved ==
  /\ pc = "tc_after_packet_header"
  /\ IF ret # 0
     THEN /\ pc' = "tc_end"
          /\ UNCHANGED <<ctx, tc_i>>
     ELSE /\ ctx' = [ctx EXCEPT !.scopes.packet_header = tc.packet_header_fc]
          /\ stream_classes_loop(0)
  /\ UNCHANGED lib_vars
  /\ UNCHANGED <<tc, fcs, cont, ret, sc_i, root_arg, arg_fc, calls, run,
                 roots_log, visited, failed_fc>>

\* The `end` label: the stack is destroyed and the status returned.
ctf_trace_class_resolve_field_classes_end ==
  /\ pc = "tc_end"
  /\ ctx' = [ctx EXCEPT !.field_class_stack = <<>>]
  /\ pc' = "done"
  /\ UNCHANGED lib_vars
  /\ UNCHANGED <<tc, fcs, cont, ret, tc_i, sc_i, root_arg, arg_fc, calls, run,
                 roots_log, visited, failed_fc>>

(***************************************************************************)
(* The caller: after a successful call, the translator marks layers as     *)
(* translated (all of them, or the trace class only) and the resolver is   *)
(* invoked again on the same trace class.                                  *)
(***************************************************************************)
translate(T, how) ==
  IF how = "all"
  THEN [is_translated |-> TRUE,
        packet_header_fc |-> T.packet_header_fc,
        stream_classes |->
          [si \in DOMAIN T.stream_classes |->
             [T.stream_classes[si] EXCEPT
                !.is_translated = TRUE,
                !.event_classes =
                  [ei \in DOMAIN @ |-> [@[ei] EXCEPT !.is_translated = TRUE]]]]]
  ELSE [T EXCEPT !.is_translated = TRUE]

translate_and_reinvoke ==
  /\ pc = "done"
  /\ ret = 0
  /\ run < MaxRuns
  /\ \E how \in {"all", "tc"} : tc' = translate(tc, how)
  /\ tc' # tc
  /\ run' = run + 1
  /\ pc' = "tc_begin"
  /\ ctx' = NewContext
  /\ UNCHANGED lib_vars
  /\ UNCHANGED <<fcs, cont, ret, tc_i, sc_i, root_arg, arg_fc, calls,
                 roots_log, visited, failed_fc>>

Next ==
  \/ ctf_trace_class_resolve_field_classes
  \/ tc_packet_header_resolved
  \/ ctf_trace_class_resolve_field_classes_end
  \/ resolve_stream_class_field_classes
  \/ sc_packet_context_resolved
  \/ sc_event_header_resolved
  \/ sc_event_common_context_resolved
  \/ resolve_stream_class_field_classes_end
  \/ resolve_event_class_field_classes
  \/ ec_spec_context_resolved
  \/ resolve_event_class_field_classes_end
  \/ resolve_root_class
  \/ resolve_field_class
  \/ translate_and_reinvoke

Spec == Init /\ [][Next]_vars

TypeOK ==
  /\ ret \in {0, -1}
  /\ pc # "abort"

(***************************************************************************)
(* Vocabulary of the properties.                                           *)
(***************************************************************************)
Children(F, fc) ==
  IF IsArrayBase(F[fc].type) THEN {F[fc].elem_fc}
  ELSE {F[fc].members[i].fc : i \in 1..Len(F[fc].members)}

RECURSIVE Subtree(_, _)
Subtree(F, fc) == {fc} \cup UNION {Subtree(F, c) : c \in Children(F, fc)}

\* The scope roots of a trace class, each with its own scope tag, its class,
\* the translated flag of the layer that owns it and its place in the order
\* of the layers.
LayerRoots(T) ==
  {[scope |-> CTF_SCOPE_PACKET_HEADER, fc |-> T.packet_header_fc,
    translated |-> T.is_translated, si |-> 0, ei |-> 0]}
  \cup UNION {
    {[scope |-> CTF_SCOPE_PACKET_CONTEXT, fc |-> T.stream_classes[si].packet_context_fc,
      translated |-> T.stream_classes[si].is_translated, si |-> si, ei |-> 0],
     [scope |-> CTF_SCOPE_EVENT_HEADER, fc |-> T.stream_classes[si].event_header_fc,
      translated |-> T.stream_classes[si].is_translated, si |-> si, ei |-> 0],
     [scope |-> CTF_SCOPE_EVENT_COMMON_CONTEXT,
      fc |-> T.stream_classes[si].event_common_context_fc,
      translated |-> T.stream_classes[si].is_translated, si |-> si, ei |-> 0]}
    : si \in DOMAIN T.stream_classes}
  \cup UNION {
    {[scope |-> CTF_SCOPE_EVENT_SPECIFIC_CONTEXT,
      fc |-> T.stream_classes[si].event_classes[ei].spec_context_fc,
      translated |-> T.stream_classes[si].event_classes[ei].is_translated,
      si |-> si, ei |-> ei],
     [scope |-> CTF_SCOPE_EVENT_PAYLOAD,
      fc |-> T.stream_classes[si].event_classes[ei].payload_fc,
      translated |-> T.stream_classes[si].event_classes[ei].is_translated,
      si |-> si, ei |-> ei]}
    : si \in DOMAIN T.stream_classes, ei \in 1..NumEventClasses}

\* The field classes under the roots of the layers whose flag is `translated`.
NodesOfLayers(T, F, translated) ==
  UNION {Subtree(F, r.fc) : r \in {q \in LayerRoots(T) :
                                     q.translated = translated /\ q.fc # NULL}}

IsSequence(F, fc) == F[fc].type = CTF_FIELD_CLASS_TYPE_SEQUENCE
IsVariant(F, fc) == F[fc].type = CTF_FIELD_CLASS_TYPE_VARIANT

\* The target path and the target class recorded on a sequence or variant.
TargetPath(F, fc) == IF IsSequence(F, fc) THEN F[fc].length_path ELSE F[fc].tag_path
TargetClass(F, fc) == IF IsSequence(F, fc) THEN F[fc].length_fc ELSE F[fc].tag_fc

TargetIsSet(F, fc) == TargetClass(F, fc) # NULL /\ Len(TargetPath(F, fc).path) >= 1

Returned(status) == pc = "done" /\ ret = status

(***************************************************************************)
(* C1.  When the call returns 0, every sequence under every scope root of  *)
(* every untranslated layer has its length path and length class set, and  *)
(* every variant there has its tag path and tag class set.                 *)
(***************************************************************************)
C1_AllResolvedOnSuccess ==
  Returned(0) =>
    \A fc \in NodesOfLayers(tc, fcs, FALSE) :
      (IsSequence(fcs, fc) \/ IsVariant(fcs, fc)) => TargetIsSet(fcs, fc)

(***************************************************************************)
(* C2.  The resolver never resolves or mutates a field class under a scope *)
(* root whose owning layer is translated.                                  *)
(***************************************************************************)
C2_TranslatedLayersUntouched ==
  [][pc = "field_class" =>
       /\ arg_fc \notin NodesOfLayers(tc, fcs, TRUE)
       /\ \A fc \in NodesOfLayers(tc, fcs, TRUE) : fcs'[fc] = fcs[fc]]_vars

(***************************************************************************)
(* C3.  In one call the scope roots are resolved in the order packet       *)
(* header; then per stream class, in list order, packet context, event     *)
(* header, event common context; then per event class of that stream, in   *)
(* list order, event specific context and event payload.  Each root of an  *)
(* untranslated layer is resolved exactly once, and while it is resolved   *)
(* the current root scope is that root's own scope tag.                    *)
(***************************************************************************)
RootEntry(scope, fc) == [scope |-> scope, fc |-> fc]

RECURSIVE ExpectedEventRoots(_, _)
ExpectedEventRoots(ecs, ei) ==
  IF ei > Len(ecs) THEN <<>>
  ELSE (IF ecs[ei].is_translated THEN <<>>
        ELSE <<RootEntry(CTF_SCOPE_EVENT_SPECIFIC_CONTEXT, ecs[ei].spec_context_fc),
               RootEntry(CTF_SCOPE_EVENT_PAYLOAD, ecs[ei].payload_fc)>>)
       \o ExpectedEventRoots(ecs, ei + 1)

RECURSIVE ExpectedStreamRoots(_, _)
ExpectedStreamRoots(scs, si) ==
  IF si > Len(scs) THEN <<>>
  ELSE (IF scs[si].is_translated THEN <<>>
        ELSE <<RootEntry(CTF_SCOPE_PACKET_CONTEXT, scs[si].packet_context_fc),
               RootEntry(CTF_SCOPE_EVENT_HEADER, scs[si].event_header_fc),
               RootEntry(CTF_SCOPE_EVENT_COMMON_CONTEXT, scs[si].event_common_context_fc)>>)
       \o ExpectedEventRoots(scs[si].event_classes, 1)
       \o ExpectedStreamRoots(scs, si + 1)

ExpectedRoots(T) ==
  (IF T.is_translated THEN <<>>
   ELSE <<RootEntry(CTF_SCOPE_PACKET_HEADER, T.packet_header_fc)>>)
  \o ExpectedStreamRoots(T.stream_classes, 1)

C3_RootOrder == Returned(0) => roots_log = ExpectedRoots(tc)

(***************************************************************************)
(* Vocabulary of the properties about one resolution.                      *)
(***************************************************************************)
\* This step resolves the sequence or variant `arg_fc`.
ResolveStep ==
  pc = "field_class" /\ (IsSequence(fcs, arg_fc) \/ IsVariant(fcs, arg_fc))

\* The field classes under `fc`, each with its field path from `fc`.
RECURSIVE PathsUnder(_, _, _)
PathsUnder(F, fc, prefix) ==
  {<<fc, prefix>>}
  \cup (IF IsArrayBase(F[fc].type)
        THEN PathsUnder(F, F[fc].elem_fc, Append(prefix, -1))
        ELSE UNION {PathsUnder(F, F[fc].members[i].fc, Append(prefix, i - 1)) :
                    i \in 1..Len(F[fc].members)})

PathOf(F, root, fc) == (CHOOSE p \in PathsUnder(F, root, <<>>) : p[1] = fc)[2]

\* The scope root under which `fc` lies.
RootOf(T, F, fc) ==
  CHOOSE r \in LayerRoots(T) : r.fc # NULL /\ fc \in Subtree(F, r.fc)

\* The field path of the class being resolved, from the root being resolved.
SourcePath == PathOf(fcs, borrow_class_from_ctx(ctx, ctx.root_scope), arg_fc)

\* What the reference of `arg_fc` denotes in this step, before validation.
Found ==
  pathstr_to_field_path(fcs, tc,
    IF IsSequence(fcs, arg_fc) THEN fcs[arg_fc].length_ref ELSE fcs[arg_fc].tag_ref,
    ctf_field_path_init, [ctx EXCEPT !.cur_fc = arg_fc])

VisitedSet == {visited[i] : i \in 1..Len(visited)}

(***************************************************************************)
(* C4 (as stated).  After a successful run the length class recorded on    *)
(* every resolved sequence is an Integer with is_signed = false and the    *)
(* tag class recorded on every resolved variant is an Enumeration; a run   *)
(* in which a visited sequence or variant refers to anything else does not *)
(* succeed.                                                                *)
(***************************************************************************)
IsUnsignedInteger(F, fc) == F[fc].type = CTF_FIELD_CLASS_TYPE_INT /\ ~F[fc].is_signed
IsUnsignedIntegerOrEnum(F, fc) ==
  F[fc].type \in {CTF_FIELD_CLASS_TYPE_INT, CTF_FIELD_CLASS_TYPE_ENUM} /\ ~F[fc].is_signed
IsEnumeration(F, fc) == F[fc].type = CTF_FIELD_CLASS_TYPE_ENUM

C4_LengthIsUnsignedInteger ==
  /\ \A fc \in DOMAIN fcs :
       /\ fcs[fc].length_fc # NULL => IsUnsignedInteger(fcs, fcs[fc].length_fc)
       /\ fcs[fc].tag_fc # NULL => IsEnumeration(fcs, fcs[fc].tag_fc)
  /\ Returned(0) =>
       \A fc \in VisitedSet :
         /\ IsSequence(fcs, fc) => fcs[fc].length_fc # NULL
         /\ IsVariant(fcs, fc) => fcs[fc].tag_fc # NULL

(***************************************************************************)
(* C4 (amended).  The length class recorded on every resolved sequence is  *)
(* an Integer or an Enumeration with is_signed = false and the tag class   *)
(* recorded on every resolved variant is an Enumeration; a run in which a  *)
(* visited sequence refers to a signed class or to a class that is neither *)
(* an integer nor an enumeration, or a visited variant to a class that is  *)
(* not an enumeration, does not succeed.                                   *)
(***************************************************************************)
C4_LengthIsUnsignedIntegerOrEnum ==
  /\ \A fc \in DOMAIN fcs :
       /\ fcs[fc].length_fc # NULL => IsUnsignedIntegerOrEnum(fcs, fcs[fc].length_fc)
       /\ fcs[fc].tag_fc # NULL => IsEnumeration(fcs, fcs[fc].tag_fc)
  /\ Returned(0) =>
       \A fc \in VisitedSet :
         /\ IsSequence(fcs, fc) => fcs[fc].length_fc # NULL
         /\ IsVariant(fcs, fc) => fcs[fc].tag_fc # NULL

\* A successful run that recorded an enumeration as a length class and an
\* integer as another.
C4_Witness ==
  /\ Returned(0)
  /\ \E fc \in VisitedSet :
       IsSequence(fcs, fc) /\ fcs[fc].length_fc # NULL
       /\ IsEnumeration(fcs, fcs[fc].length_fc)
  /\ \E fc \in VisitedSet :
       IsSequence(fcs, fc) /\ fcs[fc].length_fc # NULL
       /\ IsUnsignedInteger(fcs, fcs[fc].length_fc)

(***************************************************************************)
(* C5.  For every reference resolved successfully whose target path has    *)
(* the root scope of the source, the target path and the source path       *)
(* diverge at an index that exists in both, and there the target's index   *)
(* is strictly less than the source's.                                     *)
(***************************************************************************)
ProperDivergence(target, source) ==
  \E k \in 1..Len(target) :
    /\ k <= Len(source)
    /\ \A j \in 1..(k - 1) : target[j] = source[j]
    /\ target[k] < source[k]

C5_IntraScopeCausality ==
  [][(ResolveStep /\ ret' = 0 /\ TargetPath(fcs', arg_fc).root = ctx.root_scope)
       => ProperDivergence(TargetPath(fcs', arg_fc).path, SourcePath)]_vars

\* A reference into the source's own root was resolved below the first level.
C5_Witness ==
  \E fc \in VisitedSet :
    /\ IsSequence(fcs, fc) /\ TargetIsSet(fcs, fc)
    /\ TargetPath(fcs, fc).root = RootOf(tc, fcs, fc).scope
    /\ Len(TargetPath(fcs, fc).path) >= 2

(***************************************************************************)
(* C6.  For every reference resolved successfully the target path's root   *)
(* scope is not after the source's root scope; a reference whose target    *)
(* root is after the source root makes the call fail.                      *)
(***************************************************************************)
C6_RootScopeOrder ==
  [][ResolveStep =>
       /\ ret' = 0 => TargetPath(fcs', arg_fc).root <= ctx.root_scope
       /\ (Found.ret = 0 /\ Found.field_path.root > ctx.root_scope)
            => (ret' = -1 /\ failed_fc' = arg_fc /\ pc' = cont)]_vars

\* The call failed on a reference that names an existing field of a root
\* scope after the one of its source.
C6_Witness ==
  /\ Returned(-1)
  /\ failed_fc # NULL
  /\ get_root_scope_from_absolute_pathstr(fcs[failed_fc].length_ref)
       = CTF_SCOPE_EVENT_SPECIFIC_CONTEXT
  /\ RootOf(tc, fcs, failed_fc).scope = CTF_SCOPE_EVENT_COMMON_CONTEXT
  /\ RootOf(tc, fcs, failed_fc).translated
  /\ ~tc.stream_classes[RootOf(tc, fcs, failed_fc).si].event_classes[1].is_translated

(***************************************************************************)
(* C7.  The call returns only 0 or -1; it returns -1 exactly when the      *)
(* resolution of a visited sequence or variant failed, and the first       *)
(* failure ends the call: nothing is visited or mutated after it.          *)
(***************************************************************************)
C7_FirstFailureEndsCall ==
  [][/\ ret' \in {0, -1}
     /\ pc' = "done" => (ret' = -1 <=> failed_fc' # NULL)
     /\ failed_fc # NULL => (fcs' = fcs /\ visited' = visited /\ ret' = -1
                             /\ failed_fc' = failed_fc)
     /\ (ResolveStep /\ Found.ret # 0) => failed_fc' = arg_fc]_vars

\* The call returned -1 after a failure in the first stream class, and the
\* roots of the later stream class were left unvisited.
C7_Witness ==
  /\ Returned(-1)
  /\ failed_fc # NULL
  /\ RootOf(tc, fcs, failed_fc).si = 1
  /\ \E r \in LayerRoots(tc) :
       r.si = 2 /\ ~r.translated /\ r.fc # NULL /\ r.fc \notin VisitedSet

(***************************************************************************)
(* C8.  If the trace class, every stream class and every event class are   *)
(* translated, the call returns 0 and changes no field of any field class. *)
(***************************************************************************)
AllTranslated(T) == \A r \in LayerRoots(T) : r.translated

C8_TranslatedInputIsNoOp ==
  [][(AllTranslated(tc) /\ pc # "done")
       => (fcs' = fcs /\ ret' = 0 /\ visited' = <<>>)]_vars

\* The resolver returned from a second call, made on its own output after
\* every layer was translated.
C8_Witness ==
  /\ Returned(0)
  /\ run = 2
  /\ AllTranslated(tc)
  /\ \E fc \in DOMAIN fcs : IsSequence(fcs, fc) /\ TargetIsSet(fcs, fc)

(***************************************************************************)
(* C9.  Across one call the only fields that can change are the length     *)
(* path and length class of visited sequences and the tag path and tag     *)
(* class of visited variants; translated flags, member and option lists,   *)
(* element classes, reference strings and integer attributes are unchanged.*)
(***************************************************************************)
WithoutLength(node) ==
  [node EXCEPT !.length_path = ctf_field_path_init, !.length_fc = NULL]
WithoutTag(node) ==
  [node EXCEPT !.tag_path = ctf_field_path_init, !.tag_fc = NULL]

C9_OnlyTargetsChange ==
  [][pc # "done" =>
       /\ tc' = tc
       /\ DOMAIN fcs' = DOMAIN fcs
       /\ \A fc \in DOMAIN fcs :
            \/ fcs'[fc] = fcs[fc]
            \/ /\ pc = "field_class" /\ fc = arg_fc
               /\ \/ IsSequence(fcs, fc) /\ WithoutLength(fcs'[fc]) = WithoutLength(fcs[fc])
                  \/ IsVariant(fcs, fc) /\ WithoutTag(fcs'[fc]) = WithoutTag(fcs[fc])]_vars

\* A call that recorded a target and then failed.
C9_Witness ==
  /\ Returned(-1)
  /\ run = 1
  /\ \E fc \in VisitedSet : IsSequence(fcs, fc) /\ TargetIsSet(fcs, fc)
  /\ \E fc \in VisitedSet : IsVariant(fcs, fc) /\ ~TargetIsSet(fcs, fc)

(***************************************************************************)
(* C10.  When resolving a sequence or variant fails, the stored target     *)
(* path and target class of that field class are what they were before the *)
(* attempt.                                                                *)
(***************************************************************************)
C10_FailureWritesNothing ==
  [][(ResolveStep /\ ret' # 0)
       => /\ TargetPath(fcs', arg_fc) = TargetPath(fcs, arg_fc)
          /\ TargetClass(fcs', arg_fc) = TargetClass(fcs, arg_fc)]_vars

\* A sequence resolved by an earlier call failed in this one and kept the
\* target of the earlier call.
C10_Witness ==
  /\ failed_fc # NULL
  /\ IsSequence(fcs, failed_fc)
  /\ TargetIsSet(fcs, failed_fc)

(***************************************************************************)
(* Vocabulary of the properties about references.                          *)
(***************************************************************************)
\* The reference string of a sequence or variant.
RefString(F, fc) == IF IsSequence(F, fc) THEN F[fc].length_ref ELSE F[fc].tag_ref

\* The root scope an absolute reference names (CTF_SCOPE_PACKET_UNKNOWN for a
\* relative one).
RefScope(F, fc) == get_root_scope_from_absolute_pathstr(RefString(F, fc))

StreamScopes ==
  {CTF_SCOPE_PACKET_CONTEXT, CTF_SCOPE_EVENT_HEADER, CTF_SCOPE_EVENT_COMMON_CONTEXT}
EventScopes == {CTF_SCOPE_EVENT_SPECIFIC_CONTEXT, CTF_SCOPE_EVENT_PAYLOAD}

\* The layer owning `scope` is not available to the resolution in progress.
LayerUnavailable(scope) ==
  \/ scope = CTF_SCOPE_PACKET_HEADER /\ tc.is_translated
  \/ scope \in StreamScopes
       /\ (ctx.sc = NULL \/ tc.stream_classes[ctx.sc].is_translated)
  \/ scope \in EventScopes
       /\ (ctx.ec = NULL \/ tc.stream_classes[ctx.sc].event_classes[ctx.ec].is_translated)

\* The root class of `scope` in the layers being processed (NULL: absent).
CurrentRootClass(scope) ==
  CASE scope = CTF_SCOPE_PACKET_HEADER -> tc.packet_header_fc
    [] scope = CTF_SCOPE_PACKET_CONTEXT -> tc.stream_classes[ctx.sc].packet_context_fc
    [] scope = CTF_SCOPE_EVENT_HEADER -> tc.stream_classes[ctx.sc].event_header_fc
    [] scope = CTF_SCOPE_EVENT_COMMON_CONTEXT ->
         tc.stream_classes[ctx.sc].event_common_context_fc
    [] scope = CTF_SCOPE_EVENT_SPECIFIC_CONTEXT ->
         tc.stream_classes[ctx.sc].event_classes[ctx.ec].spec_context_fc
    [] scope = CTF_SCOPE_EVENT_PAYLOAD ->
         tc.stream_classes[ctx.sc].event_classes[ctx.ec].payload_fc

(***************************************************************************)
(* C11.  An absolute reference fails, whatever its tokens are and without  *)
(* any write, when the layer owning its root scope is not available        *)
(* (translated trace class; no current or a translated stream class; no    *)
(* current or a translated event class) or the root scope's class is       *)
(* absent.                                                                 *)
(***************************************************************************)
C11_ScopePrecondition ==
  [][(/\ ResolveStep
      /\ RefScope(fcs, arg_fc) # CTF_SCOPE_PACKET_UNKNOWN
      /\ \/ LayerUnavailable(RefScope(fcs, arg_fc))
         \/ CurrentRootClass(RefScope(fcs, arg_fc)) = NULL)
       => (ret' = -1 /\ failed_fc' = arg_fc /\ fcs' = fcs)]_vars

\* The call failed on a reference from an event payload to an existing field
\* of the packet context of its translated stream class.
C11_Witness ==
  /\ Returned(-1)
  /\ failed_fc # NULL
  /\ RefString(fcs, failed_fc) = Abs(CTF_SCOPE_PACKET_CONTEXT, Str_n)
  /\ RootOf(tc, fcs, failed_fc).scope = CTF_SCOPE_EVENT_PAYLOAD
  /\ tc.stream_classes[RootOf(tc, fcs, failed_fc).si].is_translated
  /\ tc.stream_classes[RootOf(tc, fcs, failed_fc).si].packet_context_fc # NULL

\* The call failed on a reference to the absent packet header of an
\* untranslated trace class.
C11_AbsentRootFails ==
  /\ Returned(-1)
  /\ failed_fc # NULL
  /\ RefScope(fcs, failed_fc) = CTF_SCOPE_PACKET_HEADER
  /\ tc.packet_header_fc = NULL
  /\ ~tc.is_translated

(***************************************************************************)
(* Vocabulary of the properties about the target locator.  The locator is  *)
(* looked at where the program calls it for a relative reference: on the   *)
(* frames of the descent stack, with the index of the frame as source      *)
(* index.                                                                  *)
(***************************************************************************)
\* This step resolves a relative reference that the lexer accepts.
RelativeStep ==
  /\ ResolveStep
  /\ RefScope(fcs, arg_fc) = CTF_SCOPE_PACKET_UNKNOWN
  /\ pathstr_to_ptokens(RefString(fcs, arg_fc)) # <<>>

Ptokens == pathstr_to_ptokens(RefString(fcs, arg_fc))

StackPositions == 0..(field_class_stack_size(ctx.field_class_stack) - 1)
Frame(i) == field_class_stack_at(ctx.field_class_stack, i)

\* The locator applied to the frame at position i.
Locate(i) ==
  ptokens_to_field_path(fcs, Ptokens, ctf_field_path_init, Frame(i).fc, Frame(i).index)

\* The member index that the first token names in the frame at position i.
FirstIndex(i) ==
  ctf_field_class_compound_get_field_class_index_from_orig_name(
    fcs, Frame(i).fc, Head(Ptokens))

\* The frame at position i is the one a relative reference is resolved in:
\* the innermost for which the locator succeeds.
Wins(i) ==
  /\ Locate(i).ret = 0
  /\ \A j \in StackPositions : j > i => Locate(j).ret # 0

(***************************************************************************)
(* C12 (as stated).  A token looked up in the starting compound is         *)
(* accepted only if the member index it names is strictly less than the    *)
(* source index; an index equal to or greater than the source index makes  *)
(* the locator report failure.                                             *)
(***************************************************************************)
C12_StrictlyLessAtFirstLevel ==
  RelativeStep =>
    \A i \in StackPositions :
      (IsCompound(fcs[Frame(i).fc].type) /\ FirstIndex(i) >= Frame(i).index)
        => Locate(i).ret = -1

(***************************************************************************)
(* C12 (amended).  A token looked up in the starting compound is accepted  *)
(* if the member index it names is less than or equal to the source index; *)
(* an index greater than the source index makes the locator report         *)
(* failure.  An index equal to the source index names the member in which  *)
(* the source lies (or the source itself): the locator accepts it, so that *)
(* a reference may descend through an ancestor of the source; a reference  *)
(* that stops there (one token) is rejected by the validation of the       *)
(* target.                                                                 *)
(***************************************************************************)
C12_NotGreaterAtFirstLevel ==
  [][RelativeStep =>
       \A i \in StackPositions :
         IsCompound(fcs[Frame(i).fc].type) =>
           /\ FirstIndex(i) > Frame(i).index => Locate(i).ret = -1
           /\ Locate(i).ret = 0 => FirstIndex(i) \in 0..Frame(i).index
           /\ (FirstIndex(i) \in 0..Frame(i).index /\ Len(Ptokens) = 1)
                => Locate(i).ret = 0
           /\ (FirstIndex(i) = Frame(i).index /\ Wins(i) /\ Len(Ptokens) = 1)
                => (ret' = -1 /\ fcs' = fcs)]_vars

\* The reference about to be resolved descends through the member in which
\* its source lies: the locator accepts the index equal to the source index.
C12_Witness ==
  /\ RelativeStep
  /\ Len(Ptokens) = 2
  /\ \E i \in StackPositions :
       /\ IsCompound(fcs[Frame(i).fc].type)
       /\ FirstIndex(i) = Frame(i).index
       /\ Wins(i)

(***************************************************************************)
(* C13 (as stated).  The locator compares a looked-up member index with    *)
(* the source index only for the lookup made in the starting compound      *)
(* itself; a lookup made in a compound reached by descent, including the   *)
(* element class of a starting compound that is an array or sequence, is   *)
(* never rejected because of the source index.                             *)
(***************************************************************************)
\* The locator applied to the frame at position i with no source index to
\* compare with.
LocateAnywhere(i) ==
  ptokens_to_field_path(fcs, Ptokens, ctf_field_path_init, Frame(i).fc, INT64_MAX)

\* The program applies the locator to the frame at position i: no frame
\* inside it succeeded.
Tried(i) == \A j \in StackPositions : j > i => Locate(j).ret # 0

C13_OnlyStartingCompoundCompares ==
  RelativeStep =>
    \A i \in StackPositions :
      /\ (Tried(i) /\ IsCompound(fcs[Frame(i).fc].type)
            /\ FirstIndex(i) \in 0..Frame(i).index)
           => Locate(i) = LocateAnywhere(i)
      /\ (Tried(i) /\ IsArrayBase(fcs[Frame(i).fc].type))
           => Locate(i) = LocateAnywhere(i)

(***************************************************************************)
(* C13 (amended).  The locator compares a looked-up member index with the  *)
(* source index only for the first lookup it makes (the first token).      *)
(* When the starting compound is a structure or variant this is the lookup *)
(* in the starting compound, and lookups in compounds reached by descent   *)
(* are never rejected because of the source index.  When the starting      *)
(* compound is an array or sequence, the first lookup is made in its       *)
(* element class against the source index -1 of the frame, so the locator  *)
(* fails there whatever the tokens are.                                    *)
(***************************************************************************)
C13_OnlyFirstLookupCompares ==
  RelativeStep =>
    \A i \in StackPositions :
      /\ (Tried(i) /\ IsCompound(fcs[Frame(i).fc].type)
            /\ FirstIndex(i) \in 0..Frame(i).index)
           => Locate(i) = LocateAnywhere(i)
      /\ (Tried(i) /\ IsArrayBase(fcs[Frame(i).fc].type))
           => (Frame(i).index = -1 /\ Locate(i).ret = -1)

\* The locator is applied to an array frame whose element class holds the
\* field the reference names.
C13_Witness ==
  /\ RelativeStep
  /\ \E i \in StackPositions :
       /\ Tried(i)
       /\ IsArrayBase(fcs[Frame(i).fc].type)
       /\ LocateAnywhere(i).ret = 0

\* A reference descends through the member in which its source lies to a
\* field whose index there is greater than the source index.
C13_DeeperIndexIsFree ==
  /\ RelativeStep
  /\ \E i \in StackPositions :
       /\ Wins(i)
       /\ Len(Locate(i).field_path.path) = 2
       /\ Locate(i).field_path.path[2] > Frame(i).index

(***************************************************************************)
(* C14.  In every field path produced by the locator, the index at a step  *)
(* is -1 exactly when the parent at that step is an array or sequence, and *)
(* is the position (>= 0) of the member or option the token names when the *)
(* parent is a structure or variant; traversing an array or sequence       *)
(* consumes no token, so the length of the path is the number of tokens    *)
(* consumed plus the number of arrays and sequences traversed.             *)
(***************************************************************************)
\* `path`, walked from `fc`, consumes exactly `ptokens`, one token at each
\* structure or variant and none at an array or sequence.
RECURSIVE PathMatchesTokens(_, _, _, _)
PathMatchesTokens(F, fc, path, ptokens) ==
  IF path = <<>> THEN ptokens = <<>>
  ELSE IF IsArrayBase(F[fc].type)
  THEN /\ Head(path) = -1
       /\ PathMatchesTokens(F, F[fc].elem_fc, Tail(path), ptokens)
  ELSE /\ IsCompound(F[fc].type)
       /\ ptokens # <<>>
       /\ Head(path) \in 0..(Len(F[fc].members) - 1)
       /\ F[fc].members[Head(path) + 1].name = Head(ptokens)
       /\ PathMatchesTokens(F, F[fc].members[Head(path) + 1].fc, Tail(path),
                            Tail(ptokens))

\* The number of arrays and sequences that `path` traverses from `fc`.
RECURSIVE ArraysTraversed(_, _, _)
ArraysTraversed(F, fc, path) ==
  IF path = <<>> THEN 0
  ELSE IF IsArrayBase(F[fc].type)
  THEN 1 + ArraysTraversed(F, F[fc].elem_fc, Tail(path))
  ELSE ArraysTraversed(F, F[fc].members[Head(path) + 1].fc, Tail(path))

LocatorPathOK(F, fc, path, ptokens) ==
  /\ PathMatchesTokens(F, fc, path, ptokens)
  /\ Len(path) = Len(ptokens) + ArraysTraversed(F, fc, path)

\* The tokens of an absolute reference that follow the prefix of its scope.
AbsoluteTail ==
  g_list_nth(Ptokens, absolute_path_prefix_ptoken_counts[RefScope(fcs, arg_fc) + 1])

C14_LocatorPathShape ==
  ResolveStep =>
    /\ RelativeStep =>
         \A i \in StackPositions :
           Locate(i).ret = 0
             => LocatorPathOK(fcs, Frame(i).fc, Locate(i).field_path.path, Ptokens)
    /\ (RefScope(fcs, arg_fc) # CTF_SCOPE_PACKET_UNKNOWN /\ Found.ret = 0)
         => LocatorPathOK(fcs, CurrentRootClass(RefScope(fcs, arg_fc)),
                          Found.field_path.path, AbsoluteTail)

\* The locator produced a path that traverses an array: two tokens, three
\* indices.
C14_Witness ==
  /\ RelativeStep
  /\ \E i \in StackPositions :
       /\ Wins(i)
       /\ Len(Ptokens) = 2
       /\ Len(Locate(i).field_path.path) = 3
       /\ Locate(i).field_path.path[2] = -1

(***************************************************************************)
(* C15.  For a relative reference the ancestors on the descent stack are   *)
(* tried from innermost to outermost, each with the index of its frame as  *)
(* source index, and the first for which the locator succeeds wins.  The   *)
(* path is the indices of the frames strictly outside the matched frame,   *)
(* outermost first, followed by the locator's path; if no ancestor         *)
(* succeeds, including when the stack is empty, the reference fails.       *)
(***************************************************************************)
\* The indices of the frames outside the frame at position i.
OuterIndices(i) == [j \in 1..i |-> Frame(j - 1).index]

C15_InnermostMatchWins ==
  [][RelativeStep =>
       /\ \A i \in StackPositions :
            Wins(i) =>
              /\ Found.ret = 0
              /\ Found.field_path.root = ctx.root_scope
              /\ Found.field_path.path = OuterIndices(i) \o Locate(i).field_path.path
              /\ ret' = 0 => TargetPath(fcs', arg_fc) = Found.field_path
       /\ (\A i \in StackPositions : Locate(i).ret # 0)
            => (Found.ret = -1 /\ ret' = -1 /\ fcs' = fcs)]_vars

\* A reference was resolved to the member of the inner structure although the
\* outer structure has an earlier member of the same name.
C15_Witness ==
  \E fc \in VisitedSet :
    /\ IsSequence(fcs, fc)
    /\ TargetIsSet(fcs, fc)
    /\ TargetPath(fcs, fc).path = <<1, 0>>
    /\ RefString(fcs, fc) = Str_b
    /\ LET root == RootOf(tc, fcs, fc).fc
       IN /\ fcs[root].members[1].name = Str_b
          /\ TargetClass(fcs, fc) # fcs[root].members[1].fc

\* The root being resolved is itself a sequence with a relative reference:
\* the descent stack is empty.
C15_EmptyStackFails ==
  /\ failed_fc # NULL
  /\ RootOf(tc, fcs, failed_fc).fc = failed_fc
  /\ RefScope(fcs, failed_fc) = CTF_SCOPE_PACKET_UNKNOWN

(***************************************************************************)
(* C16.  The path lexer, given a string s, returns tokens t1..tn, n >= 1,  *)
(* each non-empty and without '.', whose concatenation with '.' between    *)
(* them is s; it returns an error, and no tokens, exactly when s is empty, *)
(* starts with '.', ends with '.' or contains "..".                        *)
(***************************************************************************)
RECURSIVE JoinWithDots(_)
JoinWithDots(ptokens) ==
  IF Len(ptokens) = 1 THEN Head(ptokens)
  ELSE Head(ptokens) \o Dot \o JoinWithDots(Tail(ptokens))

HasEmptyToken(pathstr) ==
  \/ pathstr = <<>>
  \/ pathstr[1] = "."
  \/ pathstr[Len(pathstr)] = "."
  \/ \E i \in 1..(Len(pathstr) - 1) : pathstr[i] = "." /\ pathstr[i + 1] = "."

LexerOK(pathstr) ==
  LET ptokens == pathstr_to_ptokens(pathstr)
  IN /\ ptokens = <<>> <=> HasEmptyToken(pathstr)
     /\ ptokens # <<>> =>
          /\ \A k \in 1..Len(ptokens) :
               /\ ptokens[k] # <<>>
               /\ \A i \in 1..Len(ptokens[k]) : ptokens[k][i] # "."
          /\ JoinWithDots(ptokens) = pathstr

\* The lexer is given the reference string of the sequence or variant about
\* to be resolved, and that of the one that failed.
C16_LexerSplitsAtDots ==
  /\ ResolveStep => LexerOK(RefString(fcs, arg_fc))
  /\ failed_fc # NULL => LexerOK(RefString(fcs, failed_fc))

\* The call failed on a reference with an empty token in the middle.
C16_Witness ==
  /\ Returned(-1)
  /\ failed_fc # NULL
  /\ RefString(fcs, failed_fc) = Str_n \o Dot \o Dot \o Str_z

\* A reference of four tokens was split and resolved.
C16_FourTokens ==
  \E fc \in VisitedSet :
    /\ TargetIsSet(fcs, fc)
    /\ Len(pathstr_to_ptokens(RefString(fcs, fc))) = 4

(***************************************************************************)
(* C17.  The scope classifier returns the first scope, in the order packet *)
(* header, packet context, event header, event common context, event       *)
(* specific context, event payload, whose prefix (with its trailing '.')   *)
(* is a prefix of the unsplit expression, and reports the expression as    *)
(* relative when no prefix matches; no expression matches two prefixes,    *)
(* and an expression equal to a prefix without its trailing dot is         *)
(* relative.                                                               *)
(***************************************************************************)
StartsWith(pathstr, prefix) ==
  Len(pathstr) >= Len(prefix) /\ SubSeq(pathstr, 1, Len(prefix)) = prefix

\* The scopes whose prefix the expression starts with.
MatchingScopes(pathstr) ==
  {scope \in Scopes : StartsWith(pathstr, absolute_path_prefixes[scope + 1])}

WithoutTrailingDot(prefix) == SubSeq(prefix, 1, Len(prefix) - 1)

ClassifierOK(pathstr) ==
  LET scope == get_root_scope_from_absolute_pathstr(pathstr)
  IN /\ Cardinality(MatchingScopes(pathstr)) <= 1
     /\ MatchingScopes(pathstr) = {} => scope = CTF_SCOPE_PACKET_UNKNOWN
     /\ MatchingScopes(pathstr) # {}
          => (scope \in MatchingScopes(pathstr)
              /\ \A other \in MatchingScopes(pathstr) : scope <= other)

C17_ClassifierFirstPrefix ==
  /\ ResolveStep => ClassifierOK(RefString(fcs, arg_fc))
  /\ failed_fc # NULL => ClassifierOK(RefString(fcs, failed_fc))
  /\ pc = "tc_begin" =>
       \A scope \in Scopes :
         /\ get_root_scope_from_absolute_pathstr(
              WithoutTrailingDot(absolute_path_prefixes[scope + 1]))
              = CTF_SCOPE_PACKET_UNKNOWN
         /\ get_root_scope_from_absolute_pathstr(
              absolute_path_prefixes[scope + 1] \o Str_n) = scope
         /\ \A other \in Scopes \ {scope} :
              ~StartsWith(absolute_path_prefixes[scope + 1],
                          absolute_path_prefixes[other + 1])

\* The call failed on the reference "event.fields", which was taken as
\* relative and looked up as the field `event` from an event payload.
C17_Witness ==
  /\ Returned(-1)
  /\ failed_fc # NULL
  /\ RefString(fcs, failed_fc) = WithoutTrailingDot(absolute_path_prefixes[CTF_SCOPE_EVENT_PAYLOAD + 1])
  /\ RefScope(fcs, failed_fc) = CTF_SCOPE_PACKET_UNKNOWN
  /\ RootOf(tc, fcs, failed_fc).scope = CTF_SCOPE_EVENT_PAYLOAD

(***************************************************************************)
(* C18.  Whenever a sequence or variant is being resolved, the descent     *)
(* stack holds exactly its ancestors, from the class of the current root   *)
(* scope down to its parent; the index of an array or sequence frame is    *)
(* -1 and the index of a structure or variant frame is the position of the *)
(* member the descent went into; walking the frame indices from the root   *)
(* class reaches the class being resolved.                                 *)
(***************************************************************************)
Parent(F, fc) == CHOOSE p \in DOMAIN F : fc \in Children(F, p)

\* The classes from `root` down to the parent of `fc`, outermost first.
RECURSIVE Ancestors(_, _, _)
Ancestors(F, root, fc) ==
  IF fc = root THEN <<>>
  ELSE Append(Ancestors(F, root, Parent(F, fc)), Parent(F, fc))

StackClasses == [i \in 1..Len(ctx.field_class_stack) |-> ctx.field_class_stack[i].fc]

\* The class the descent went into from the frame `i`.
Below(i) ==
  IF i = Len(ctx.field_class_stack) THEN arg_fc ELSE ctx.field_class_stack[i + 1].fc

FrameIndexOK(i) ==
  LET frame == ctx.field_class_stack[i]
  IN IF IsArrayBase(fcs[frame.fc].type)
     THEN frame.index = -1 /\ fcs[frame.fc].elem_fc = Below(i)
     ELSE /\ frame.index \in 0..(Len(fcs[frame.fc].members) - 1)
          /\ fcs[frame.fc].members[frame.index + 1].fc = Below(i)

C18_StackIsPathToSource ==
  ResolveStep =>
    LET root == borrow_class_from_ctx(ctx, ctx.root_scope)
    IN /\ ctx.root_scope # CTF_SCOPE_PACKET_UNKNOWN
       /\ root # NULL
       /\ arg_fc \in Subtree(fcs, root)
       /\ StackClasses = Ancestors(fcs, root, arg_fc)
       /\ \A i \in 1..Len(ctx.field_class_stack) : FrameIndexOK(i)
       /\ get_ctx_stack_field_path(ctx).root = ctx.root_scope
       /\ field_path_walk(fcs, root, get_ctx_stack_field_path(ctx).path, 1) = arg_fc

\* A sequence is being resolved three frames deep, under a structure frame
\* with a non-zero index, an array frame and a structure frame.
C18_Witness ==
  /\ ResolveStep
  /\ Len(ctx.field_class_stack) = 3
  /\ get_ctx_stack_field_path(ctx).path = <<1, -1, 1>>
  /\ fcs[ctx.field_class_stack[2].fc].type = CTF_FIELD_CLASS_TYPE_ARRAY

\* A root that is itself a sequence is resolved on an empty stack.
C18_RootOnEmptyStack ==
  /\ ResolveStep
  /\ ctx.field_class_stack = <<>>
  /\ arg_fc = borrow_class_from_ctx(ctx, ctx.root_scope)

(***************************************************************************)
(* Vocabulary of C19: an absolute reference from an event payload to a     *)
(* member of the event common context of the enclosing stream class, of a  *)
(* type the referring class accepts.                                       *)
(***************************************************************************)
CommonContextOfCurrentStreamClass == tc.stream_classes[ctx.sc].event_common_context_fc

\* The positions of the members of the common context that the reference of
\* `arg_fc` names.
NamedCommonContextMembers ==
  IF CommonContextOfCurrentStreamClass = NULL
       \/ fcs[CommonContextOfCurrentStreamClass].type # CTF_FIELD_CLASS_TYPE_STRUCT
  THEN {}
  ELSE {pos \in 1..Len(fcs[CommonContextOfCurrentStreamClass].members) :
          /\ RefString(fcs, arg_fc)
               = Abs(CTF_SCOPE_EVENT_COMMON_CONTEXT,
                     fcs[CommonContextOfCurrentStreamClass].members[pos].name)
          /\ \A other \in 1..(pos - 1) :
               fcs[CommonContextOfCurrentStreamClass].members[other].name
                 # fcs[CommonContextOfCurrentStreamClass].members[pos].name
          /\ IF IsSequence(fcs, arg_fc)
             THEN IsUnsignedIntegerOrEnum(fcs,
                    fcs[CommonContextOfCurrentStreamClass].members[pos].fc)
             ELSE IsEnumeration(fcs,
                    fcs[CommonContextOfCurrentStreamClass].members[pos].fc)}

PayloadRefersToCommonContext ==
  /\ ResolveStep
  /\ ctx.sc # NULL
  /\ ctx.ec # NULL
  /\ ctx.root_scope = CTF_SCOPE_EVENT_PAYLOAD
  /\ NamedCommonContextMembers # {}

\* The step resolves the reference to the member at `pos` of the common
\* context.
ResolvesToCommonContextMember(pos) ==
  /\ ret' = 0
  /\ TargetPath(fcs', arg_fc)
       = [root |-> CTF_SCOPE_EVENT_COMMON_CONTEXT, path |-> <<pos - 1>>]
  /\ TargetClass(fcs', arg_fc) = fcs[CommonContextOfCurrentStreamClass].members[pos].fc

(***************************************************************************)
(* C19 (as stated).  During the resolution of any event class the packet   *)
(* context, event header and event common context scopes of the enclosing  *)
(* stream class are addressable regardless of the translated flag of the   *)
(* stream class: an absolute reference from the event payload to a member  *)
(* of the event common context resolves to the path {root: event common    *)
(* context, indices: [member position]} and records that member as the     *)
(* target class.                                                           *)
(***************************************************************************)
C19_AddressableRegardlessOfFlag ==
  [][PayloadRefersToCommonContext
       => \A pos \in NamedCommonContextMembers : ResolvesToCommonContextMember(pos)]_vars

(***************************************************************************)
(* What the code does in the case of C19.  resolve_stream_class_field_     *)
(* classes() sets the three stream scopes in the context regardless of the *)
(* translated flag of the stream class (lines 1174-1176), but absolute_    *)
(* ptokens_to_field_path() refuses a reference to them when the stream     *)
(* class is translated (lines 462-469): the reference of C19 resolves as   *)
(* C19 says when the stream class is not translated, and fails with        *)
(* nothing written when it is.                                             *)
(***************************************************************************)
C19_AddressableWhenStreamClassUntranslated ==
  [][PayloadRefersToCommonContext
       => /\ ctx.scopes.packet_context = tc.stream_classes[ctx.sc].packet_context_fc
          /\ ctx.scopes.event_header = tc.stream_classes[ctx.sc].event_header_fc
          /\ ctx.scopes.event_common_context = CommonContextOfCurrentStreamClass
          /\ IF tc.stream_classes[ctx.sc].is_translated
             THEN ret' = -1 /\ failed_fc' = arg_fc /\ fcs' = fcs
             ELSE \A pos \in NamedCommonContextMembers :
                    ResolvesToCommonContextMember(pos)]_vars

\* The call returned 0 with a variant in an event payload whose tag is the
\* enumeration at position 1 of the event common context of its untranslated
\* stream class.
C19_Witness ==
  /\ Returned(0)
  /\ \E fc \in DOMAIN fcs :
       /\ IsVariant(fcs, fc)
       /\ RefString(fcs, fc) = Abs(CTF_SCOPE_EVENT_COMMON_CONTEXT, Str_k)
       /\ RootOf(tc, fcs, fc).scope = CTF_SCOPE_EVENT_PAYLOAD
       /\ ~tc.stream_classes[RootOf(tc, fcs, fc).si].is_translated
       /\ fcs[fc].tag_path = [root |-> CTF_SCOPE_EVENT_COMMON_CONTEXT, path |-> <<1>>]
       /\ fcs[fc].tag_fc
            = fcs[tc.stream_classes[RootOf(tc, fcs, fc).si].event_common_context_fc]
                .members[2].fc
       /\ IsEnumeration(fcs, fcs[fc].tag_fc)

\* The call failed on a reference from the payload of an untranslated event
\* class to the member `n` of the event common context of its translated
\* stream class.
C19_TranslatedStreamClassFails ==
  /\ Returned(-1)
  /\ failed_fc # NULL
  /\ RefString(fcs, failed_fc) = Abs(CTF_SCOPE_EVENT_COMMON_CONTEXT, Str_n)
  /\ RootOf(tc, fcs, failed_fc).scope = CTF_SCOPE_EVENT_PAYLOAD
  /\ ~RootOf(tc, fcs, failed_fc).translated
  /\ tc.stream_classes[RootOf(tc, fcs, failed_fc).si].is_translated
  /\ LET cc == tc.stream_classes[RootOf(tc, fcs, failed_fc).si].event_common_context_fc
     IN cc # NULL /\ fcs[cc].members[1].name = Str_n
                  /\ IsUnsignedInteger(fcs, fcs[cc].members[1].fc)

(***************************************************************************)
(* Vocabulary of C20: the class a walk by member names ends at.  An array  *)
(* or sequence is entered without consuming a name, as long as names are   *)
(* left.                                                                   *)
(***************************************************************************)
RECURSIVE NameWalk(_, _, _)
NameWalk(F, fc, ptokens) ==
  IF ptokens = <<>> THEN fc
  ELSE IF IsArrayBase(F[fc].type) THEN NameWalk(F, F[fc].elem_fc, ptokens)
  ELSE IF F[fc].type \notin {CTF_FIELD_CLASS_TYPE_STRUCT, CTF_FIELD_CLASS_TYPE_VARIANT}
  THEN NULL
  ELSE LET named == {i \in 1..Len(F[fc].members) : F[fc].members[i].name = Head(ptokens)}
       IN IF named = {} THEN NULL
          ELSE NameWalk(F, F[fc].members[CHOOSE i \in named : \A j \in named : i <= j].fc,
                        Tail(ptokens))

\* The class at which the token walk of this step ended: from the root class
\* of the scope for an absolute reference, from the winning frame for a
\* relative one.
TokenWalkEnd ==
  IF RefScope(fcs, arg_fc) # CTF_SCOPE_PACKET_UNKNOWN
  THEN NameWalk(fcs, CurrentRootClass(RefScope(fcs, arg_fc)), AbsoluteTail)
  ELSE NameWalk(fcs, Frame(CHOOSE i \in StackPositions : Wins(i)).fc, Ptokens)

\* The class that `field_path` denotes: the walk of its indices from the root
\* class of its scope in the layers being processed.
Denoted(F, field_path) ==
  field_path_walk(F, CurrentRootClass(field_path.root), field_path.path, 1)

(***************************************************************************)
(* C20.  For every reference whose path computation succeeds, absolute or  *)
(* relative, walking the produced field path from the class of its root    *)
(* scope reaches the field class at which the token walk ended; when the   *)
(* step succeeds, the path recorded on the node is the produced path and   *)
(* the class recorded on the node is the class that path denotes.          *)
(***************************************************************************)
C20_PathDenotesTokenWalkEnd ==
  [][(ResolveStep /\ Found.ret = 0)
       => /\ TokenWalkEnd # NULL
          /\ Denoted(fcs, Found.field_path) = TokenWalkEnd
          /\ field_path_to_field_class(fcs, Found.field_path, ctx) = TokenWalkEnd
          /\ ret' = 0
               => /\ TargetPath(fcs', arg_fc) = Found.field_path
                  /\ TargetClass(fcs', arg_fc) = TokenWalkEnd
                  /\ TargetClass(fcs', arg_fc) = Denoted(fcs', TargetPath(fcs', arg_fc))]_vars

\* The call returned 0 with a sequence whose relative reference "b" was found
\* in its parent, a member of the root: the recorded path is the stitched
\* index of the root frame followed by the located index, and denotes the
\* recorded class.
C20_Witness ==
  /\ Returned(0)
  /\ \E fc \in DOMAIN fcs :
       /\ IsSequence(fcs, fc)
       /\ RefString(fcs, fc) = Str_b
       /\ fcs[fc].length_path.path = <<1, 0>>
       /\ fcs[fc].length_fc
            = field_path_walk(fcs, RootOf(tc, fcs, fc).fc, fcs[fc].length_path.path, 1)
       /\ fcs[fc].length_fc # NULL

\* The call returned 0 with a variant whose absolute reference was resolved
\* through a root of another scope.
C20_AbsoluteWitness ==
  /\ Returned(0)
  /\ \E fc \in DOMAIN fcs :
       /\ IsVariant(fcs, fc)
       /\ RefScope(fcs, fc) # CTF_SCOPE_PACKET_UNKNOWN
       /\ RefScope(fcs, fc) # RootOf(tc, fcs, fc).scope
       /\ fcs[fc].tag_path.root = RefScope(fcs, fc)
       /\ fcs[fc].tag_fc # NULL
       /\ fcs[fc].tag_fc \notin Subtree(fcs, RootOf(tc, fcs, fc).fc)


(***************************************************************************)
(* C21.  A relative reference that resolves gets a target path whose root  *)
(* is the root scope being resolved, and a target class under the class of *)
(* that root; a relative reference to a name that no frame of the stack    *)
(* can locate fails, also when a field of that name exists in the root of  *)
(* an earlier scope.                                                       *)
(***************************************************************************)
\* The roots of the earlier scopes, in the layers being processed, that have
\* a member named like the first token of the reference.
EarlierRootsWithName ==
  {scope \in Scopes :
     /\ scope < ctx.root_scope
     /\ ~LayerUnavailable(scope)
     /\ CurrentRootClass(scope) # NULL
     /\ NameWalk(fcs, CurrentRootClass(scope), Ptokens) # NULL}

C21_RelativeStaysInRootScope ==
  [][RelativeStep =>
       /\ ret' = 0 =>
            /\ TargetPath(fcs', arg_fc).root = ctx.root_scope
            /\ TargetClass(fcs', arg_fc)
                 \in Subtree(fcs, borrow_class_from_ctx(ctx, ctx.root_scope))
            /\ \A scope \in Scopes \ {ctx.root_scope} :
                 (~LayerUnavailable(scope) /\ CurrentRootClass(scope) # NULL)
                   => TargetClass(fcs', arg_fc) \notin Subtree(fcs, CurrentRootClass(scope))
       /\ (\A i \in StackPositions : NameWalk(fcs, Frame(i).fc, Ptokens) = NULL)
            => (ret' = -1 /\ failed_fc' = arg_fc /\ fcs' = fcs)]_vars

\* The call failed on the relative reference "k" of a sequence in an event
\* payload that has no field `k`, while the event common context of its
\* stream class has one.
C21_Witness ==
  /\ Returned(-1)
  /\ failed_fc # NULL
  /\ RefString(fcs, failed_fc) = Str_k
  /\ RootOf(tc, fcs, failed_fc).scope = CTF_SCOPE_EVENT_PAYLOAD
  /\ NameWalk(fcs, RootOf(tc, fcs, failed_fc).fc, <<Str_k>>) = NULL
  /\ LET cc == tc.stream_classes[RootOf(tc, fcs, failed_fc).si].event_common_context_fc
     IN cc # NULL /\ NameWalk(fcs, cc, <<Str_k>>) # NULL

\* A relative reference is being resolved while the root of an earlier scope
\* has a field of the name it starts with.
C21_NameInEarlierScope ==
  /\ RelativeStep
  /\ EarlierRootsWithName # {}
  /\ \A i \in StackPositions : NameWalk(fcs, Frame(i).fc, Ptokens) = NULL


(***************************************************************************)
(* C22.  The descent stack is empty every time resolve_root_class() starts *)
(* (its entry assertion never fails), also after absent roots and across   *)
(* stream and event classes; inside resolve_field_class() the stack holds  *)
(* one frame per compound activation in progress, so that an activation    *)
(* that returns success leaves the stack at the size it had on entry, and  *)
(* the stack is empty whenever a root has been resolved with success.      *)
(***************************************************************************)
C22_StackBalanced ==
  /\ pc = "root_begin" => field_class_stack_size(ctx.field_class_stack) = 0
  /\ pc = "field_class" =>
       /\ field_class_stack_size(ctx.field_class_stack) = Len(calls)
       /\ \A i \in 1..Len(calls) : ctx.field_class_stack[i].fc = calls[i].fc
  /\ (pc # "field_class" /\ ret = 0) => ctx.field_class_stack = <<>>

\* resolve_root_class() starts for a root of the second stream class after
\* roots that were resolved and a root that was absent.
C22_Witness ==
  /\ pc = "root_begin"
  /\ tc_i = 1
  /\ ctx.field_class_stack = <<>>
  /\ \E i \in 1..Len(roots_log) : roots_log[i].fc = NULL
  /\ \E i \in 1..Len(roots_log) : roots_log[i].fc # NULL
  /\ visited # <<>>

\* After a failure below a compound class the frames stay on the stack; no
\* root is started after it.
C22_FailureLeavesFrames ==
  /\ ret = -1
  /\ failed_fc # NULL
  /\ field_class_stack_size(ctx.field_class_stack) >= 2


(***************************************************************************)
(* C23.  At the start of processing each stream class the three stream     *)
(* scope pointers of the context are null, and at the start of processing  *)
(* each event class the two event scope pointers are null, so the entry    *)
(* assertions never fail; when the processing of a stream class or of an   *)
(* event class has returned, with success or failure, its scope pointers   *)
(* and the context's current stream or event class are null again.         *)
(***************************************************************************)
StreamScopesNull ==
  /\ ctx.scopes.packet_context = NULL
  /\ ctx.scopes.event_header = NULL
  /\ ctx.scopes.event_common_context = NULL

EventScopesNull ==
  /\ ctx.scopes.event_spec_context = NULL
  /\ ctx.scopes.event_payload = NULL

C23_ScopesNullAtEntryAndReturn ==
  /\ pc # "abort"
  /\ pc = "sc_begin" => StreamScopesNull
  /\ pc = "ec_begin" => EventScopesNull
  \* resolve_event_class_field_classes() has returned: the event class loop
  \* goes on, or the stream class ends.
  /\ pc \in {"ec_begin", "sc_end"} => (EventScopesNull /\ ctx.ec = NULL)
  \* resolve_stream_class_field_classes() has returned: the stream class loop
  \* goes on, or the call ends.
  /\ pc \in {"sc_begin", "tc_end", "done"} =>
       (StreamScopesNull /\ EventScopesNull /\ ctx.sc = NULL /\ ctx.ec = NULL)

\* The processing of the second stream class has returned a failure that came
\* from the payload of one of its event classes.
C23_Witness ==
  /\ pc = "tc_end"
  /\ ret = -1
  /\ tc_i = 1
  /\ failed_fc # NULL
  /\ RootOf(tc, fcs, failed_fc).scope = CTF_SCOPE_EVENT_PAYLOAD
  /\ StreamScopesNull /\ EventScopesNull
  /\ ctx.sc = NULL /\ ctx.ec = NULL

\* The second event class of a stream class starts after the first one was
\* processed with success.
C23_SecondEventClassStarts ==
  /\ pc = "ec_begin"
  /\ sc_i = 1
  /\ ret = 0
  /\ \E i \in 1..Len(roots_log) : roots_log[i].scope = CTF_SCOPE_EVENT_PAYLOAD
  /\ EventScopesNull
  /\ ~StreamScopesNull


(***************************************************************************)
(* C24.  Every target path that reaches validation has length >= 1: an     *)
(* absolute expression that lexes successfully keeps at least one token    *)
(* after its 3 or 2 prefix tokens, and a relative resolution succeeds only *)
(* after consuming at least one token; the rejection of a path of length 0 *)
(* is never the reason of a failure.                                       *)
(***************************************************************************)
C24_ValidatedPathNonEmpty ==
  ResolveStep =>
    /\ (RefScope(fcs, arg_fc) # CTF_SCOPE_PACKET_UNKNOWN /\ Ptokens # <<>>)
         => Len(Ptokens) > absolute_path_prefix_ptoken_counts[RefScope(fcs, arg_fc) + 1]
    /\ Found.ret = 0 => Len(Found.field_path.path) >= 1

\* An absolute reference with a single token after its prefix reaches the
\* validation, which rejects it for another reason (the target lies after
\* the source).
C24_Witness ==
  /\ ResolveStep
  /\ RefString(fcs, arg_fc) = Abs(ctx.root_scope, Str_z)
  /\ Found.ret = 0
  /\ Len(Found.field_path.path) = 1
  /\ validate_target_field_path(fcs, Found.field_path,
       field_path_to_field_class(fcs, Found.field_path, ctx),
       [ctx EXCEPT !.cur_fc = arg_fc]) = -1

\* An expression that is a prefix and nothing else is rejected by the lexer.
C24_PrefixOnlyFailsInLexer ==
  /\ ResolveStep
  /\ \E scope \in Scopes : RefString(fcs, arg_fc) = absolute_path_prefixes[scope + 1]
  /\ Ptokens = <<>>
  /\ Found.ret = -1


(***************************************************************************)
(* C25.  A sequence whose length reference resolves to an enumeration with *)
(* is_signed = false is accepted, and that enumeration is recorded as its  *)
(* length class; one resolving to an enumeration or integer with           *)
(* is_signed = true is rejected; the signedness of the enumeration a       *)
(* variant's tag reference resolves to is not checked.  (Accepted: the     *)
(* step succeeds when the target also precedes the source.)                *)
(***************************************************************************)
\* The target found in this step lies before the source: in an earlier
\* scope, or in the source's scope at a lesser index where the paths part.
FoundPrecedesSource ==
  \/ Found.field_path.root < ctx.root_scope
  \/ /\ Found.field_path.root = ctx.root_scope
     /\ ProperDivergence(Found.field_path.path, SourcePath)

C25_EnumerationLengthAndTagSign ==
  [][(ResolveStep /\ Found.ret = 0)
       => /\ (/\ IsSequence(fcs, arg_fc)
              /\ fcs[TokenWalkEnd].type
                   \in {CTF_FIELD_CLASS_TYPE_INT, CTF_FIELD_CLASS_TYPE_ENUM}
              /\ fcs[TokenWalkEnd].is_signed)
               => (ret' = -1 /\ failed_fc' = arg_fc /\ fcs' = fcs)
          /\ (/\ IsSequence(fcs, arg_fc)
              /\ IsEnumeration(fcs, TokenWalkEnd)
              /\ ~fcs[TokenWalkEnd].is_signed
              /\ FoundPrecedesSource)
               => (ret' = 0 /\ fcs'[arg_fc].length_fc = TokenWalkEnd)
          /\ (/\ IsVariant(fcs, arg_fc)
              /\ IsEnumeration(fcs, TokenWalkEnd)
              /\ FoundPrecedesSource)
               => (ret' = 0 /\ fcs'[arg_fc].tag_fc = TokenWalkEnd)]_vars

\* The call returned 0 having recorded an unsigned enumeration as the length
\* class of a sequence.
C25_Witness ==
  /\ Returned(0)
  /\ \E fc \in VisitedSet :
       /\ IsSequence(fcs, fc)
       /\ RefString(fcs, fc) = Str_n
       /\ fcs[fc].length_fc # NULL
       /\ IsEnumeration(fcs, fcs[fc].length_fc)
       /\ ~fcs[fcs[fc].length_fc].is_signed
       /\ fcs[fc].length_path.path = <<0>>

\* The call failed on a sequence whose length reference names a signed
\* enumeration.
C25_SignedEnumerationLengthRejected ==
  /\ Returned(-1)
  /\ failed_fc # NULL
  /\ IsSequence(fcs, failed_fc)
  /\ RefString(fcs, failed_fc) = Str_n
  /\ LET named == NameWalk(fcs, RootOf(tc, fcs, failed_fc).fc, <<Str_n>>)
     IN named # NULL /\ IsEnumeration(fcs, named) /\ fcs[named].is_signed
  /\ fcs[failed_fc].length_fc = NULL

\* The call returned 0 having recorded a signed enumeration as the tag class
\* of a variant.
C25_SignedEnumerationTagAccepted ==
  /\ Returned(0)
  /\ \E fc \in VisitedSet :
       /\ IsVariant(fcs, fc)
       /\ fcs[fc].tag_fc # NULL
       /\ IsEnumeration(fcs, fcs[fc].tag_fc)
       /\ fcs[fcs[fc].tag_fc].is_signed


(***************************************************************************)
(* Vocabulary of C26: the place of a state in the call.  The place is the  *)
(* sequence of the run, the phase of the trace class, the stream class     *)
(* index, the phase of the stream class, the event class index, the phase  *)
(* of the event class, the phase of the root, and the field path of the    *)
(* class being entered.  Places are ordered as words, the field paths in   *)
(* pre-order: a path is before every path it is a proper prefix of.        *)
(***************************************************************************)
InRoot == pc \in {"root_begin", "field_class"}

StreamLabels ==
  {"sc_begin", "sc_after_packet_context", "sc_after_event_header",
   "sc_after_event_common_context", "sc_end"}
EventLabels == {"ec_begin", "ec_after_spec_context", "ec_end"}

\* The label the control is at, or returns to from the root being resolved.
Label == IF InRoot THEN cont ELSE pc

TracePhase ==
  CASE pc = "tc_begin" -> 0
    [] Label = "tc_after_packet_header" -> IF InRoot THEN 1 ELSE 2
    [] Label \in StreamLabels \cup EventLabels -> 3
    [] pc = "tc_end" -> 4
    [] OTHER -> 5

StreamPhase ==
  CASE Label = "sc_begin" -> 0
    [] Label = "sc_after_packet_context" -> IF InRoot THEN 1 ELSE 2
    [] Label = "sc_after_event_header" -> IF InRoot THEN 3 ELSE 4
    [] Label = "sc_after_event_common_context" -> IF InRoot THEN 5 ELSE 6
    [] Label \in EventLabels -> 7
    [] Label = "sc_end" -> 8
    [] OTHER -> 0

EventPhase ==
  CASE Label = "ec_begin" -> 0
    [] Label = "ec_after_spec_context" -> IF InRoot THEN 1 ELSE 2
    [] Label = "ec_end" -> IF InRoot THEN 3 ELSE 4
    [] OTHER -> 0

RootPhase == IF pc = "field_class" THEN 1 ELSE 0

\* The field path of the class being entered as a number: one digit per
\* frame of the descent stack, outermost first (1 for an array or sequence
\* frame, the member position plus 2 for the others; see C18), then zeros.
\* PlaceInRange states that the digits and their number suffice.
PathRadix == Len(Sib(UInt32, Str_n).kids) + 2
PathDigits == PathRadix

RECURSIVE PathNumber(_, _)
PathNumber(stack, i) ==
  IF i > PathDigits THEN 0
  ELSE (IF i <= Len(stack) THEN stack[i].index + 2 ELSE 0)
         * PathRadix ^ (PathDigits - i)
       + PathNumber(stack, i + 1)

\* The place as a number: its components, most significant first, as the
\* digits of a mixed radix.
Place ==
  LET inStreams == TracePhase = 3
      inEvents == inStreams /\ StreamPhase = 7
  IN (((((((run * 6 + TracePhase)
           * (NumStreamClasses + 1) + (IF inStreams THEN tc_i ELSE 0))
          * 9 + (IF inStreams THEN StreamPhase ELSE 0))
         * (NumEventClasses + 1) + (IF inEvents THEN sc_i ELSE 0))
        * 5 + (IF inEvents THEN EventPhase ELSE 0))
       * 2 + RootPhase)
      * PathRadix ^ PathDigits)
     + (IF pc = "field_class" THEN PathNumber(ctx.field_class_stack, 1) ELSE 0)

\* Every component is a digit of its radix.
PlaceInRange ==
  /\ run \in 0..MaxRuns
  /\ tc_i \in 0..NumStreamClasses
  /\ sc_i \in 0..NumEventClasses
  /\ Len(ctx.field_class_stack) <= PathDigits
  /\ \A i \in 1..Len(ctx.field_class_stack) :
       ctx.field_class_stack[i].index + 2 \in 1..(PathRadix - 1)

\* The greatest height of a root's tree is less than its number of classes.
MaxHeight == TreeSize(Arr(Str_m))

(***************************************************************************)
(* C26.  The call terminates for every tree and reference string of the    *)
(* inputs: no step ends in an abort, and every step moves the call to a    *)
(* later place of a finite                                                 *)
(* order (the driver's loops advance, and the descent enters the classes   *)
(* of a root in pre-order, each once).  Inside a step, the token walk      *)
(* makes one iteration per token and per array or sequence descended, so   *)
(* that a located path is no longer than the tokens plus the height of the *)
(* tree; the stitching loop stops at the frame of the matched ancestor,    *)
(* which occurs once on the stack; the upward search tries the frames from *)
(* the innermost to the outermost and stops.                               *)
(***************************************************************************)
LoopsBounded ==
  RelativeStep =>
    /\ \A i \in StackPositions :
         /\ Locate(i).ret = 0
              => Len(Locate(i).field_path.path) <= Len(Ptokens) + MaxHeight
         \* The stitching loop for the frame i stops at i.
         /\ \A j \in StackPositions : Frame(j).fc = Frame(i).fc => j = i
         /\ Len(stitch_head(ctx.field_class_stack, Frame(i).fc, 0,
                            ctf_field_path_init).path) = i
    /\ Found.ret = -1 <=> \A i \in StackPositions : Locate(i).ret # 0

C26_CallTerminates ==
  [][PlaceInRange /\ Place < Place' /\ pc' # "abort" /\ LoopsBounded]_vars

\* A relative reference is found in an outer frame after the search tried
\* two inner frames, one of them an array frame, and the path was stitched.
C26_Witness ==
  /\ RelativeStep
  /\ field_class_stack_size(ctx.field_class_stack) = 3
  /\ Locate(2).ret # 0
  /\ Locate(1).ret # 0
  /\ Locate(0).ret = 0
  /\ Found.ret = 0

\* The call has returned from its last run.
C26_LastRunReturned ==
  /\ pc = "done"
  /\ run = MaxRuns
  /\ visited # <<>>


(***************************************************************************)
(* ctf_trace_class_update_text_array_sequence()                            *)
(* (ctf-meta-update-text-array-sequence.cpp).                              *)
(*                                                                         *)
(* The field classes carry, besides the fields the resolver reads, the     *)
(* alignment and the encoding of an integer and the is_text mark of an     *)
(* array or sequence.                                                      *)
(***************************************************************************)
CTF_ENCODING_NONE == "NONE"
CTF_ENCODING_UTF8 == "UTF8"

TextLeaf(type, is_signed, size, alignment, encoding) ==
  Leaf(type, is_signed, size) @@ [alignment |-> alignment, encoding |-> encoding]

NewTextFieldClass(t, base) ==
  [type |-> t.type,
   is_signed |-> t.is_signed,
   size |-> t.size,
   alignment |-> IF "alignment" \in DOMAIN t THEN t.alignment ELSE 1,
   encoding |-> IF "encoding" \in DOMAIN t THEN t.encoding ELSE CTF_ENCODING_NONE,
   is_text |-> FALSE,
   members |-> IF IsArrayBase(t.type) THEN <<>>
               ELSE [i \in 1..Len(t.kids) |->
                       [name |-> t.kids[i].name, fc |-> KidId(t, base, i)]],
   elem_fc |-> IF IsArrayBase(t.type) THEN KidId(t, base, 1) ELSE NULL]

RECURSIVE FlattenText(_, _), FlattenTextKids(_, _, _)
FlattenText(t, base) ==
  IF t.type = "ABSENT" THEN <<>>
  ELSE (base :> NewTextFieldClass(t, base)) @@ FlattenTextKids(t, base, Len(t.kids))
FlattenTextKids(t, base, k) ==
  IF k = 0 THEN <<>>
  ELSE FlattenTextKids(t, base, k - 1) @@ FlattenText(t.kids[k].t, KidId(t, base, k))

\* The elements tried: integers and enumerations with every combination of
\* signedness, size, alignment and encoding, a floating point number and a
\* string.
Float == Leaf(CTF_FIELD_CLASS_TYPE_FLOAT, FALSE, 32)

TextElements ==
  {TextLeaf(type, is_signed, size, alignment, encoding) :
     type \in {CTF_FIELD_CLASS_TYPE_INT, CTF_FIELD_CLASS_TYPE_ENUM},
     is_signed \in BOOLEAN, size \in {8, 32}, alignment \in {8, 1},
     encoding \in {CTF_ENCODING_UTF8, CTF_ENCODING_NONE}}
  \cup {Float, String}

Char == TextLeaf(CTF_FIELD_CLASS_TYPE_INT, TRUE, 8, 8, CTF_ENCODING_UTF8)

\* The root of every layer that the input does not single out.
DefaultTextRoot == Array(Char)

\* Arrays and sequences of an element, at the root and at depth.
TextNest(e) ==
  Struct(<<Named(Str_n, UInt32),
           Named(Str_v, Variant(Str_n, <<Named(Str_a, Array(e)),
                                         Named(Str_b, Array(Array(e)))>>)),
           Named(Str_s, Sequence(Str_n, e))>>)

TextRoots ==
  {Absent}
  \cup TextElements
  \cup {Array(e) : e \in TextElements}
  \cup {Sequence(Str_n, e) : e \in TextElements}
  \cup {Struct(<<Named(Str_n, e)>>) : e \in TextElements}
  \cup {Array(Struct(<<Named(Str_m, e)>>)) : e \in TextElements}
  \cup {TextNest(e) : e \in TextElements}

TextBlockSize == TreeSize(TextNest(Char))
TextRootBase(scope, si, ei) == RootPos(scope, si, ei) * TextBlockSize + 1

TextRootTree(f, t, scope, si, ei) ==
  IF IsFocus(f, scope, si, ei) THEN t ELSE DefaultTextRoot

TextRootId(f, t, scope, si, ei) ==
  IF TextRootTree(f, t, scope, si, ei).type = "ABSENT" THEN NULL
  ELSE TextRootBase(scope, si, ei)

NewTextArena(f, t) ==
  MergeAll({FlattenText(TextRootTree(f, t, r[1], r[2], r[3]),
                        TextRootBase(r[1], r[2], r[3])) : r \in AllRoots})

NewTextTraceClass(f, t, tcT, scT, ecT, restT) ==
  [is_translated |-> tcT,
   packet_header_fc |-> TextRootId(f, t, CTF_SCOPE_PACKET_HEADER, 1, 1),
   stream_classes |->
     [si \in StreamIndexes |->
        [is_translated |-> IF si = f.layer[1] THEN scT ELSE restT,
         packet_context_fc |-> TextRootId(f, t, CTF_SCOPE_PACKET_CONTEXT, si, 1),
         event_header_fc |-> TextRootId(f, t, CTF_SCOPE_EVENT_HEADER, si, 1),
         event_common_context_fc |->
           TextRootId(f, t, CTF_SCOPE_EVENT_COMMON_CONTEXT, si, 1),
         event_classes |->
           [ei \in EventIndexes |->
              [is_translated |->
                 IF si = f.layer[1] /\ ei = f.layer[2] THEN ecT ELSE restT,
               spec_context_fc |->
                 TextRootId(f, t, CTF_SCOPE_EVENT_SPECIFIC_CONTEXT, si, ei),
               payload_fc |-> TextRootId(f, t, CTF_SCOPE_EVENT_PAYLOAD, si, ei)]]]]]

\* The inputs: every root at every scope of the first layer of a freshly
\* parsed trace class; nested roots at every scope of the last layer; and
\* roots with character arrays at every scope of the first layer with every
\* combination of translated flags.
FlaggedTextRoots ==
  {Absent, Array(Char), TextNest(Char),
   TextNest(TextLeaf(CTF_FIELD_CLASS_TYPE_ENUM, TRUE, 8, 8, CTF_ENCODING_UTF8)),
   TextNest(TextLeaf(CTF_FIELD_CLASS_TYPE_INT, TRUE, 8, 8, CTF_ENCODING_NONE))}

TextInputs ==
  {[f |-> f, t |-> t, flags |-> FreshFlags] :
     f \in {g \in Focuses : g.layer = <<1, 1>>}, t \in TextRoots}
  \cup {[f |-> f, t |-> TextNest(e), flags |-> FreshFlags] :
          f \in Focuses, e \in TextElements}
  \cup {[f |-> f, t |-> t, flags |-> fl] :
          f \in {g \in Focuses : g.layer = <<1, 1>>}, t \in FlaggedTextRoots,
          fl \in Flags}

TextInit ==
  \E in \in TextInputs :
    /\ tc = NewTextTraceClass(in.f, in.t, in.flags.tc, in.flags.sc, in.flags.ec,
                              in.flags.rest)
    /\ fcs = NewTextArena(in.f, in.t)
    /\ fcs_given = fcs
    /\ pc = "text_begin"
    /\ ret = 0
    /\ tc_i = 0
    /\ sc_i = 0
    /\ ResolverIdle
    /\ TimegmIdle
    /\ DlistIdle
    /\ ObjstackIdle

\* The test of the element without the test of its size.
elem_fc_is_text_char_size_untested(F, elem_fc) ==
  /\ F[elem_fc].type \in {CTF_FIELD_CLASS_TYPE_INT, CTF_FIELD_CLASS_TYPE_ENUM}
  /\ F[elem_fc].alignment = 8
  /\ F[elem_fc].encoding = CTF_ENCODING_UTF8

\* The test of the element of an array or sequence (lines 64-69).
elem_fc_is_text_char(F, elem_fc) ==
  /\ F[elem_fc].type \in {CTF_FIELD_CLASS_TYPE_INT, CTF_FIELD_CLASS_TYPE_ENUM}
  /\ F[elem_fc].alignment = 8
  /\ F[elem_fc].size = 8
  /\ F[elem_fc].encoding = CTF_ENCODING_UTF8

\* The status and the field classes after the call on `fc`.
RECURSIVE set_text_array_sequence_field_class(_, _), set_text_named_field_classes(_, _, _)
set_text_array_sequence_field_class(F, fc) ==
  IF fc = NULL THEN [ret |-> 0, fcs |-> F]
  ELSE IF F[fc].type \in {CTF_FIELD_CLASS_TYPE_STRUCT, CTF_FIELD_CLASS_TYPE_VARIANT}
  THEN set_text_named_field_classes(F, fc, 1)
  ELSE IF IsArrayBase(F[fc].type)
  THEN LET int_fc == F[fc].elem_fc
           G == IF elem_fc_is_text_char(F, int_fc)
                THEN [F EXCEPT ![fc].is_text = TRUE, ![int_fc].is_signed = FALSE]
                ELSE F
       IN set_text_array_sequence_field_class(G, F[fc].elem_fc)
  ELSE [ret |-> 0, fcs |-> F]
\* The loop over the members of a structure or the options of a variant,
\* from index i on.
set_text_named_field_classes(F, fc, i) ==
  IF i > Len(F[fc].members) THEN [ret |-> 0, fcs |-> F]
  ELSE LET r == set_text_array_sequence_field_class(F, F[fc].members[i].fc)
       IN IF r.ret # 0 THEN r
          ELSE set_text_named_field_classes(r.fcs, fc, i + 1)

\* The calls on the roots `roots` in order, up to the first that fails.
RECURSIVE set_text_roots(_, _)
set_text_roots(F, roots) ==
  IF roots = <<>> THEN [ret |-> 0, fcs |-> F]
  ELSE LET r == set_text_array_sequence_field_class(F, Head(roots))
       IN IF r.ret # 0 THEN r ELSE set_text_roots(r.fcs, Tail(roots))

\* Entry: the packet header of an untranslated trace class.
ctf_trace_class_update_text_array_sequence ==
  /\ pc = "text_begin"
  /\ LET r == IF ~tc.is_translated
              THEN set_text_roots(fcs, <<tc.packet_header_fc>>)
              ELSE [ret |-> 0, fcs |-> fcs]
     IN /\ fcs' = r.fcs
        /\ ret' = r.ret
        /\ pc' = IF r.ret # 0 THEN "text_end" ELSE "text_sc"
  /\ tc_i' = 0
  /\ UNCHANGED <<tc, sc_i, fcs_given>>
  /\ UNCHANGED <<resolver_vars, timegm_vars, dlist_vars, objstack_vars>>

\* One turn of the stream class loop, up to the event class loop; the loop
\* ends at the last stream class.
update_text_stream_class ==
  /\ pc = "text_sc"
  /\ IF tc_i < Len(tc.stream_classes)
     THEN LET sc == tc.stream_classes[tc_i + 1]
              r == IF ~sc.is_translated
                   THEN set_text_roots(fcs, <<sc.packet_context_fc, sc.event_header_fc,
                                              sc.event_common_context_fc>>)
                   ELSE [ret |-> 0, fcs |-> fcs]
          IN /\ fcs' = r.fcs
             /\ ret' = r.ret
             /\ pc' = IF r.ret # 0 THEN "text_end" ELSE "text_ec"
             /\ sc_i' = 0
     ELSE /\ pc' = "text_end"
          /\ UNCHANGED <<fcs, ret, sc_i>>
  /\ UNCHANGED <<tc, tc_i, fcs_given>>
  /\ UNCHANGED <<resolver_vars, timegm_vars, dlist_vars, objstack_vars>>

\* One turn of the event class loop; after the last event class the stream
\* class loop goes on.
update_text_event_class ==
  /\ pc = "text_ec"
  /\ IF sc_i < Len(tc.stream_classes[tc_i + 1].event_classes)
     THEN LET ec == tc.stream_classes[tc_i + 1].event_classes[sc_i + 1]
              r == IF ec.is_translated
                   THEN [ret |-> 0, fcs |-> fcs]
                   ELSE set_text_roots(fcs, <<ec.spec_context_fc, ec.payload_fc>>)
          IN /\ fcs' = r.fcs
             /\ ret' = r.ret
             /\ pc' = IF r.ret # 0 THEN "text_end" ELSE "text_ec"
             /\ sc_i' = sc_i + 1
             /\ UNCHANGED tc_i
     ELSE /\ pc' = "text_sc"
          /\ tc_i' = tc_i + 1
          /\ UNCHANGED <<fcs, ret, sc_i>>
  /\ UNCHANGED <<tc, fcs_given>>
  /\ UNCHANGED <<resolver_vars, timegm_vars, dlist_vars, objstack_vars>>

\* end: return ret.
ctf_trace_class_update_text_array_sequence_end ==
  /\ pc = "text_end"
  /\ pc' = "text_done"
  /\ UNCHANGED <<tc, fcs, ret, tc_i, sc_i, fcs_given>>
  /\ UNCHANGED <<resolver_vars, timegm_vars, dlist_vars, objstack_vars>>

TextNext ==
  \/ ctf_trace_class_update_text_array_sequence
  \/ update_text_stream_class
  \/ update_text_event_class
  \/ ctf_trace_class_update_text_array_sequence_end

TextSpec == TextInit /\ [][TextNext]_vars


(***************************************************************************)
(* C27.  ctf_trace_class_update_text_array_sequence sets is_text and       *)
(* clears the element's is_signed on exactly the arrays and sequences, at  *)
(* any depth under a root of an untranslated layer, whose element is an    *)
(* integer or enumeration with alignment 8, size 8 and UTF-8 encoding; no  *)
(* other field changes, and nothing changes under the roots of a           *)
(* translated trace class, stream class or event class.                    *)
(***************************************************************************)
TextLayers ==
  {[is_translated |-> tc.is_translated, roots |-> {tc.packet_header_fc}]}
  \cup {[is_translated |-> tc.stream_classes[si].is_translated,
         roots |-> {tc.stream_classes[si].packet_context_fc,
                    tc.stream_classes[si].event_header_fc,
                    tc.stream_classes[si].event_common_context_fc}] :
          si \in DOMAIN tc.stream_classes}
  \cup {[is_translated |-> tc.stream_classes[si].event_classes[ei].is_translated,
         roots |-> {tc.stream_classes[si].event_classes[ei].spec_context_fc,
                    tc.stream_classes[si].event_classes[ei].payload_fc}] :
          si \in DOMAIN tc.stream_classes, ei \in EventIndexes}

TextRootsOf(translated) ==
  UNION {l.roots : l \in {k \in TextLayers : k.is_translated = translated}} \ {NULL}

UnderTextRoots(translated) ==
  UNION {Subtree(fcs_given, r) : r \in TextRootsOf(translated)}

IsCharacterArray(F, n) ==
  /\ F[n].type \in {CTF_FIELD_CLASS_TYPE_ARRAY, CTF_FIELD_CLASS_TYPE_SEQUENCE}
  /\ LET e == F[F[n].elem_fc]
     IN /\ e.type \in {CTF_FIELD_CLASS_TYPE_INT, CTF_FIELD_CLASS_TYPE_ENUM}
        /\ <<e.alignment, e.size, e.encoding>> = <<8, 8, CTF_ENCODING_UTF8>>

TextArrays == {n \in UnderTextRoots(FALSE) : IsCharacterArray(fcs_given, n)}

TextExpected ==
  [n \in DOMAIN fcs_given |->
     LET marked == IF n \in TextArrays
                   THEN [fcs_given[n] EXCEPT !.is_text = TRUE]
                   ELSE fcs_given[n]
     IN IF \E a \in TextArrays : fcs_given[a].elem_fc = n
        THEN [marked EXCEPT !.is_signed = FALSE]
        ELSE marked]

C27_TextArraysMarkedExactly ==
  /\ pc \in {"text_begin", "text_sc", "text_ec", "text_end", "text_done"}
  /\ \A n \in UnderTextRoots(TRUE) : fcs[n] = fcs_given[n]
  /\ pc = "text_done" => ret = 0 /\ fcs = TextExpected

\* The call returned after it marked a sequence that lies in a structure and
\* an array that lies in a variant, both of signed characters, and left a
\* character array under a translated layer alone.
C27_Witness ==
  /\ pc = "text_done"
  /\ \E n \in TextArrays :
       /\ fcs_given[n].type = CTF_FIELD_CLASS_TYPE_SEQUENCE
       /\ n \notin TextRootsOf(FALSE)
       /\ fcs_given[fcs_given[n].elem_fc].is_signed
       /\ fcs[n].is_text /\ ~fcs[fcs_given[n].elem_fc].is_signed
  /\ \E n \in TextArrays, v \in DOMAIN fcs_given :
       /\ fcs_given[v].type = CTF_FIELD_CLASS_TYPE_VARIANT
       /\ n \in Children(fcs_given, v)
       /\ fcs_given[fcs_given[n].elem_fc].type = CTF_FIELD_CLASS_TYPE_ENUM
  /\ \E n \in UnderTextRoots(TRUE) :
       IsCharacterArray(fcs_given, n) /\ ~fcs[n].is_text

\* An array of arrays of characters: the inner array is marked, the outer
\* one is not.
C27_NestedArray ==
  /\ pc = "text_done"
  /\ \E n \in TextArrays, o \in UnderTextRoots(FALSE) :
       /\ IsArrayBase(fcs_given[o].type)
       /\ fcs_given[o].elem_fc = n
       /\ fcs[n].is_text /\ ~fcs[o].is_text


(***************************************************************************)
(* The fallback bt_timegm() (native_bt_mip.i.h).  All its arithmetic is    *)
(* done in int.                                                            *)
(***************************************************************************)
MinTmYear == 66
MaxTmYear == 138

INT_MAX == 2147483647

SecondsPerDay == 24 * 60 * 60

\* The dates and times of day given to bt_timegm(): every month, with one
\* beyond December; the days at which months end, with one beyond 31; the
\* first and last second of a day, a leap second, and each of hour, minute
\* and second beyond its range.
TmDays == {1, 28, 29, 30, 31, 32}
TmTimes ==
  {<<0, 0, 0>>, <<3, 14, 7>>, <<23, 59, 59>>, <<23, 59, 60>>,
   <<24, 0, 0>>, <<0, 60, 0>>, <<0, 0, 61>>}

TmInputs ==
  {[tm_year |-> y, tm_mon |-> m, tm_mday |-> d,
    tm_hour |-> t[1], tm_min |-> t[2], tm_sec |-> t[3]] :
     y \in MinTmYear..MaxTmYear, m \in 0..12, d \in TmDays, t \in TmTimes}

TimegmInit ==
  /\ tm \in TmInputs
  /\ timegm_ret = 0
  /\ errno = "none"
  /\ pc = "timegm_call"
  /\ tc = <<>>
  /\ fcs = <<>>
  /\ ret = 0
  /\ tc_i = 0
  /\ sc_i = 0
  /\ ResolverIdle
  /\ DlistIdle
  /\ ObjstackIdle
  /\ TextIdle

bt_leapyear(year) ==
  (year % 4) = 0 /\ ((year % 100) # 0 \/ (year % 400) = 0)

\* Days per month for a regular year and for a leap year.
monthlen ==
  <<<<31, 28, 31, 30, 31, 30, 31, 31, 30, 31, 30, 31>>,
    <<31, 29, 31, 30, 31, 30, 31, 31, 30, 31, 30, 31>>>>

\* The loop over the years from `year` on: one day for each leap year
\* before tm_year.
RECURSIVE bt_timegm_leap_days(_, _)
bt_timegm_leap_days(year, tm_year) ==
  IF year < tm_year
  THEN (IF bt_leapyear(1900 + year) THEN 1 ELSE 0) + bt_timegm_leap_days(year + 1, tm_year)
  ELSE 0

\* The value of `year` when the loop over the years is left.
bt_timegm_year_after_loop(tm_year) == IF 70 < tm_year THEN tm_year ELSE 70

\* The loop over the months from `month` on.
RECURSIVE bt_timegm_month_days(_, _, _)
bt_timegm_month_days(month, tm_mon, year) ==
  IF month < tm_mon
  THEN monthlen[IF bt_leapyear(1900 + year) THEN 2 ELSE 1][month + 1]
       + bt_timegm_month_days(month + 1, tm_mon, year)
  ELSE 0

bt_timegm_total_days(t) ==
  365 * (t.tm_year - 70)
  + bt_timegm_leap_days(70, t.tm_year)
  + bt_timegm_month_days(0, t.tm_mon, bt_timegm_year_after_loop(t.tm_year))
  + (t.tm_mday - 1)

bt_timegm_out_of_range(t) ==
  \/ t.tm_mon >= 12
  \/ t.tm_mday >= 32
  \/ t.tm_hour >= 24
  \/ t.tm_min >= 60
  \/ t.tm_sec >= 61

\* The seconds into the day that the return expression adds.
bt_timegm_day_seconds(t) == (t.tm_hour * 60 + t.tm_min) * 60 + t.tm_sec

\* Whether the return expression stays within int.  Its value grows with
\* every step when total_days is not negative, so it overflows exactly when
\* its exact value exceeds INT_MAX.
bt_timegm_fits_int(total_days, t) ==
  \/ total_days < INT_MAX \div SecondsPerDay
  \/ /\ total_days = INT_MAX \div SecondsPerDay
     /\ bt_timegm_day_seconds(t) <= INT_MAX % SecondsPerDay

\* The value of the return expression reduced modulo 2^32 into int, for a
\* value beyond INT_MAX: 2^32 = 49710 days and 23296 seconds.
bt_timegm_wrapped(total_days, t) ==
  (total_days - 49710) * SecondsPerDay + (bt_timegm_day_seconds(t) - 23296)

\* Signed overflow in the return expression is undefined: the build either
\* wraps the value or traps.
bt_timegm ==
  /\ pc = "timegm_call"
  /\ IF bt_timegm_out_of_range(tm)
     THEN /\ errno' = "EOVERFLOW"
          /\ timegm_ret' = -1
          /\ pc' = "timegm_done"
     ELSE LET total_days == bt_timegm_total_days(tm)
          IN IF bt_timegm_fits_int(total_days, tm)
             THEN /\ timegm_ret' = total_days * SecondsPerDay + bt_timegm_day_seconds(tm)
                  /\ pc' = "timegm_done"
                  /\ UNCHANGED errno
             ELSE \/ /\ timegm_ret' = bt_timegm_wrapped(total_days, tm)
                     /\ pc' = "timegm_done"
                     /\ UNCHANGED errno
                  \/ /\ pc' = "timegm_trapped"
                     /\ UNCHANGED <<timegm_ret, errno>>
  /\ UNCHANGED <<tm, tc, fcs, ret, tc_i, sc_i>>
  /\ UNCHANGED <<resolver_vars, dlist_vars, objstack_vars, text_vars>>

TimegmNext == bt_timegm

TimegmSpec == TimegmInit /\ [][TimegmNext]_vars

(***************************************************************************)
(* C28.  For every struct tm whose fields are in range, bt_timegm returns  *)
(* the number of seconds from 1970-01-01 00:00:00 GMT to that GMT date and *)
(* time, counting leap years by the Gregorian rule; when a field is out of *)
(* range it returns -1 and sets errno to EOVERFLOW.                        *)
(***************************************************************************)
\* Days from 1970-01-01 to the day `d` of month `m` (1..12) of the year `y`
\* in the proleptic Gregorian calendar, counted in 400-year eras of 146097
\* days from 0000-03-01.
DaysFromCivil(y, m, d) ==
  LET yy == IF m <= 2 THEN y - 1 ELSE y
      era == yy \div 400
      yoe == yy - era * 400
      doy == (153 * (IF m > 2 THEN m - 3 ELSE m + 9) + 2) \div 5 + d - 1
      doe == yoe * 365 + yoe \div 4 - yoe \div 100 + doy
  IN era * 146097 + doe - 719468

GmtDays(t) == DaysFromCivil(1900 + t.tm_year, t.tm_mon + 1, t.tm_mday)

GmtDaySeconds(t) == t.tm_hour * 3600 + t.tm_min * 60 + t.tm_sec

TmInRange(t) ==
  /\ t.tm_mon < 12
  /\ t.tm_mday < 32
  /\ t.tm_hour < 24
  /\ t.tm_min < 60
  /\ t.tm_sec < 61

\* The returned value is d days and s seconds.
ReturnsDaysAndSeconds(d, s) ==
  /\ pc = "timegm_done"
  /\ (timegm_ret - s) % SecondsPerDay = 0
  /\ (timegm_ret - s) \div SecondsPerDay = d

C28_TimegmReturnsSeconds ==
  pc # "timegm_call" =>
    IF TmInRange(tm)
    THEN ReturnsDaysAndSeconds(GmtDays(tm), GmtDaySeconds(tm))
    ELSE pc = "timegm_done" /\ timegm_ret = -1 /\ errno = "EOVERFLOW"

\* What the code does in the case of C28: the value is right from 1970 up
\* to the last second an int holds, 2038-01-19 03:14:07.
C28_RightFrom1970WhileIntHolds ==
  pc # "timegm_call" =>
    IF ~TmInRange(tm)
    THEN pc = "timegm_done" /\ timegm_ret = -1 /\ errno = "EOVERFLOW"
    ELSE (tm.tm_year >= 70 /\ bt_timegm_fits_int(GmtDays(tm), tm))
           => ReturnsDaysAndSeconds(GmtDays(tm), GmtDaySeconds(tm))

\* bt_timegm returned for 1968-01-01 00:00:00, two years and a leap day
\* before the epoch.
C28_LeapYearBeforeEpoch ==
  /\ pc = "timegm_done"
  /\ tm = [tm_year |-> 68, tm_mon |-> 0, tm_mday |-> 1,
           tm_hour |-> 0, tm_min |-> 0, tm_sec |-> 0]
  /\ timegm_ret = -730 * SecondsPerDay
  /\ GmtDays(tm) = -731

\* bt_timegm was given 2038-01-28 00:00:00, later than the last second an
\* int holds, and returned a negative number.
C28_IntOverflows ==
  /\ pc = "timegm_done"
  /\ tm = [tm_year |-> 138, tm_mon |-> 0, tm_mday |-> 28,
           tm_hour |-> 0, tm_min |-> 0, tm_sec |-> 0]
  /\ timegm_ret < 0


(***************************************************************************)
(* bt_list_splice() (common/list.h) on the doubly-linked lists of          *)
(* zephyr/dlist.h.  A list is a ring of nodes through a sentinel; the head *)
(* and tail of the sentinel share storage with next and prev of a node, so *)
(* that both are written next and prev here.                               *)
(***************************************************************************)
MaxListNodes == 4

\* The two sentinels and the nodes that can be put on the lists.
ListHead == 1
ListAdd == 2
ListNodes == 3..(2 + MaxListNodes)

sys_dlist_init(D, list) == [D EXCEPT ![list] = [next |-> list, prev |-> list]]

sys_dlist_is_empty(D, list) == D[list].next = list

sys_dlist_append(D, list, node) ==
  LET tail == D[list].prev
      D1 == [D EXCEPT ![node] = [next |-> list, prev |-> tail]]
      D2 == [D1 EXCEPT ![tail].next = node]
  IN [D2 EXCEPT ![list].prev = node]

\* sys_dlist_splice() without its third assignment.
sys_dlist_splice_head_prev_left(D, list, add) ==
  IF ~sys_dlist_is_empty(D, add)
  THEN LET D1 == [D EXCEPT ![D[add].next].prev = list]
           D2 == [D1 EXCEPT ![D1[add].prev].next = D1[list].next]
       IN [D2 EXCEPT ![list].next = D2[add].next]
  ELSE D

\* The four assignments in order, each reading what the ones before wrote.
sys_dlist_splice(D, list, add) ==
  IF ~sys_dlist_is_empty(D, add)
  THEN LET D1 == [D EXCEPT ![D[add].next].prev = list]
           D2 == [D1 EXCEPT ![D1[add].prev].next = D1[list].next]
           D3 == [D2 EXCEPT ![D2[list].next].prev = D2[add].prev]
       IN [D3 EXCEPT ![list].next = D3[add].next]
  ELSE D

ListInit ==
  /\ dlist = sys_dlist_init(sys_dlist_init(
               [n \in {ListHead, ListAdd} \cup ListNodes |->
                  [next |-> NULL, prev |-> NULL]], ListHead), ListAdd)
  /\ dlist_old = dlist
  /\ pc = "list_build"
  /\ tc = <<>>
  /\ fcs = <<>>
  /\ ret = 0
  /\ tc_i = 0
  /\ sc_i = 0
  /\ ResolverIdle
  /\ TimegmIdle
  /\ ObjstackIdle
  /\ TextIdle

\* bt_list_add_tail(newp, head) of a node that is on no list.
bt_list_add_tail ==
  /\ pc = "list_build"
  /\ \E newp \in ListNodes, head \in {ListHead, ListAdd} :
       /\ dlist[newp].next = NULL
       /\ dlist' = sys_dlist_append(dlist, head, newp)
  /\ UNCHANGED <<dlist_old, pc, tc, fcs, ret, tc_i, sc_i>>
  /\ UNCHANGED <<resolver_vars, timegm_vars, objstack_vars, text_vars>>

\* bt_list_splice(&add, &head).
bt_list_splice ==
  /\ pc = "list_build"
  /\ dlist_old' = dlist
  /\ dlist' = sys_dlist_splice(dlist, ListHead, ListAdd)
  /\ pc' = "list_spliced"
  /\ UNCHANGED <<tc, fcs, ret, tc_i, sc_i>>
  /\ UNCHANGED <<resolver_vars, timegm_vars, objstack_vars, text_vars>>

\* BT_INIT_LIST_HEAD(&add): the spliced list is made empty before it is
\* used again.
BT_INIT_LIST_HEAD ==
  /\ pc = "list_spliced"
  /\ dlist' = sys_dlist_init(dlist, ListAdd)
  /\ pc' = "list_build"
  /\ UNCHANGED <<dlist_old, tc, fcs, ret, tc_i, sc_i>>
  /\ UNCHANGED <<resolver_vars, timegm_vars, objstack_vars, text_vars>>

ListNext ==
  \/ bt_list_add_tail
  \/ bt_list_splice
  \/ BT_INIT_LIST_HEAD

ListSpec == ListInit /\ [][ListNext]_vars

(***************************************************************************)
(* C29.  bt_list_splice(add, head) with a non-empty add puts the nodes of  *)
(* add, in their order, at the front of head's list, followed by head's    *)
(* original nodes in their order, and leaves the links of head's list      *)
(* consistent (n.next.prev = n and n.prev.next = n for every node          *)
(* reachable from head, the sentinel included); with an empty add, head's  *)
(* list is unchanged.                                                      *)
(***************************************************************************)
\* The nodes met from `n` along next up to the sentinel `list`, at most
\* `fuel` of them; a walk that does not come back ends with NULL.
RECURSIVE NodesFrom(_, _, _, _)
NodesFrom(D, list, n, fuel) ==
  IF n = list THEN <<>>
  ELSE IF fuel = 0 \/ n = NULL THEN <<NULL>>
  ELSE <<n>> \o NodesFrom(D, list, D[n].next, fuel - 1)

NodesOf(D, list) == NodesFrom(D, list, D[list].next, Cardinality(DOMAIN D))

LinksConsistent(D, list) ==
  \A n \in {list} \cup {NodesOf(D, list)[i] : i \in 1..Len(NodesOf(D, list))} :
    /\ n # NULL
    /\ D[n].next # NULL /\ D[D[n].next].prev = n
    /\ D[n].prev # NULL /\ D[D[n].prev].next = n

C29_SpliceAtFrontInOrder ==
  pc = "list_spliced" =>
    IF NodesOf(dlist_old, ListAdd) # <<>>
    THEN /\ NodesOf(dlist, ListHead)
              = NodesOf(dlist_old, ListAdd) \o NodesOf(dlist_old, ListHead)
         /\ LinksConsistent(dlist, ListHead)
    ELSE dlist = dlist_old

\* Two nodes were spliced in front of two nodes.
C29_Witness ==
  /\ pc = "list_spliced"
  /\ Len(NodesOf(dlist_old, ListAdd)) = 2
  /\ Len(NodesOf(dlist_old, ListHead)) = 2
  /\ Len(NodesOf(dlist, ListHead)) = 4

\* Nodes were spliced into an empty list.
C29_IntoEmptyList ==
  /\ pc = "list_spliced"
  /\ Len(NodesOf(dlist_old, ListAdd)) >= 2
  /\ sys_dlist_is_empty(dlist_old, ListHead)
  /\ dlist[ListHead].prev = dlist_old[ListAdd].prev

\* An empty list was spliced into a list that holds nodes.
C29_EmptyAdd ==
  /\ pc = "list_spliced"
  /\ sys_dlist_is_empty(dlist_old, ListAdd)
  /\ ~sys_dlist_is_empty(dlist, ListHead)


(***************************************************************************)
(* The object stack (objstack.cpp).  Its lengths are size_t; size_t        *)
(* arithmetic wraps at SIZE_MAX + 1.  SIZE_MAX stands for the largest      *)
(* size_t: it is the largest integer the model checker represents.         *)
(***************************************************************************)
MaxObjstackNodes == 3
MaxAllocs == 3

OBJSTACK_ALIGN == 8
OBJSTACK_INIT_LEN == 128
SIZE_MAX == 2147483647

size_add(a, b) == IF a > SIZE_MAX - b THEN a - (SIZE_MAX - b) - 1 ELSE a + b
size_sub(a, b) == IF a >= b THEN a - b ELSE SIZE_MAX - (b - a) + 1

\* BT_ALIGN(x, a) of common/align.h for a power of two a:
\* ((x) + (a) - 1) & ~((a) - 1).
BT_ALIGN(x, a) == LET s == size_add(x, a - 1) IN s - (s % a)

\* The lengths asked for: none, one byte, a multiple of the alignment, more
\* than half a node, a whole first node, one byte more, more than the
\* second node, and the lengths whose alignment goes beyond SIZE_MAX.
AllocLens == {0, 1, 8, 100, 128, 129, 300, SIZE_MAX - 8, SIZE_MAX - 7, SIZE_MAX}

\* objstack_create(): one node of OBJSTACK_INIT_LEN bytes, zeroed by calloc.
objstack_create == <<[len |-> OBJSTACK_INIT_LEN, used_len |-> 0]>>

ObjstackInit ==
  /\ objstack = objstack_create
  /\ regions = <<>>
  /\ pc = "objstack_ready"
  /\ tc = <<>>
  /\ fcs = <<>>
  /\ ret = 0
  /\ tc_i = 0
  /\ sc_i = 0
  /\ ResolverIdle
  /\ TimegmIdle
  /\ DlistIdle
  /\ TextIdle

\* objstack_append_node() with a new node as long as the last one.
objstack_append_node_same_length(nodes) ==
  Append(nodes, [len |-> nodes[Len(nodes)].len, used_len |-> 0])

\* The nodes after objstack_append_node(): the new node is the last one and
\* is twice as long as the one that was last.
objstack_append_node(nodes) ==
  Append(nodes, [len |-> size_add(nodes[Len(nodes)].len, nodes[Len(nodes)].len),
                 used_len |-> 0])

\* The loop of objstack_alloc() and what follows it, for the aligned length
\* `len`; calloc succeeds `callocs` more times.  p is the place of
\* the returned pointer: the node and the offset in its data (NULL: no node).
RECURSIVE objstack_alloc_from(_, _, _)
objstack_alloc_from(nodes, len, callocs) ==
  LET last_node == nodes[Len(nodes)]
  IN IF size_sub(last_node.len, last_node.used_len) < len
     THEN IF callocs = 0
          THEN [p |-> [node |-> NULL, offset |-> 0], nodes |-> nodes]
          ELSE objstack_alloc_from(objstack_append_node(nodes), len, callocs - 1)
     ELSE [p |-> [node |-> Len(nodes), offset |-> last_node.used_len],
           nodes |-> [nodes EXCEPT ![Len(nodes)].used_len = size_add(@, len)]]

\* objstack_alloc(objstack, len).  Memory runs out at the latest when the
\* stack has MaxObjstackNodes nodes.
objstack_alloc ==
  /\ pc = "objstack_ready"
  /\ Len(regions) < MaxAllocs
  /\ \E len \in AllocLens, callocs \in 0..(MaxObjstackNodes - Len(objstack)) :
       LET aligned == BT_ALIGN(len, OBJSTACK_ALIGN)
           r == objstack_alloc_from(objstack, aligned, callocs)
       IN /\ objstack' = r.nodes
          /\ regions' = IF r.p.node = NULL THEN regions
                        ELSE Append(regions, [node |-> r.p.node, offset |-> r.p.offset,
                                              len |-> aligned, asked |-> len])
  /\ UNCHANGED <<pc, tc, fcs, ret, tc_i, sc_i>>
  /\ UNCHANGED <<resolver_vars, timegm_vars, dlist_vars, text_vars>>

ObjstackNext == objstack_alloc

ObjstackSpec == ObjstackInit /\ [][ObjstackNext]_vars


(***************************************************************************)
(* C30.  After any sequence of successful objstack_alloc calls, every      *)
(* returned region starts at an offset that is a multiple of 8 in the data *)
(* of one node, lies entirely inside that node (used_len <= len for every  *)
(* node), and overlaps no region returned earlier; the first node has      *)
(* length 128 and each appended node has twice the length of the node      *)
(* that was last before it.  The region of a call is the bytes the call    *)
(* takes from the node: the aligned length from the returned pointer on.   *)
(***************************************************************************)
RegionInNode(r) ==
  /\ r.node \in 1..Len(objstack)
  /\ r.offset % 8 = 0
  /\ r.offset <= objstack[r.node].len
  /\ r.len <= objstack[r.node].len - r.offset
  /\ r.len <= objstack[r.node].used_len - r.offset

RegionsOverlap(r, s) ==
  /\ r.node = s.node
  /\ r.offset - s.offset < s.len
  /\ s.offset - r.offset < r.len

C30_TwoNodesAppended ==
  /\ Len(objstack) = 3
  /\ objstack[2].used_len = 0
  /\ \E i \in 1..Len(regions) : regions[i].node = 3 /\ regions[i].asked = 300

\* A call failed after it appended a node.
C30_FailedAfterAppend ==
  /\ Len(objstack) = 2
  /\ regions = <<>>

\* A length whose alignment goes beyond SIZE_MAX: the call returns a pointer
\* and takes no byte.
C30_AlignmentWraps ==
  \E i \in 1..Len(regions) : regions[i].asked = SIZE_MAX /\ regions[i].len = 0

====
